---- MODULE Spec2Model ----
(***************************************************************************)
(* TesseraEngine: the per-frame rendering loop of VulkanRenderer           *)
(* (drawFrame), its deferred destruction of retired geometry buffers, the  *)
(* swapchain recreation protocol and the mesh-import queue shared between  *)
(* the rendering thread and the background import tasks.                   *)
(*                                                                         *)
(* Threads: the rendering thread (pc), NumWorkers import tasks (workerPc)  *)
(* and the GPU, which retires the submissions of the graphics queue in     *)
(* submission order (GpuComplete).                                         *)
(*                                                                         *)
(* Conventions.  An ASSERT that fails and an exception that leaves         *)
(* drawFrame both end the rendering thread (pc = "aborted").  Window       *)
(* events are delivered on the thread that runs the frame loop, between    *)
(* two drawFrame calls.  threadSafeQueueSubmit submits to graphicsQueue,   *)
(* the queue endSingleTimeCommands waits idle on.                          *)
(***************************************************************************)
EXTENDS Integers, Sequences, FiniteSets, TLC

\* ------------------------------------------------------------ bounds
\* Number of drawFrame calls explored.
MaxFrames == 4
\* Number of background import tasks (RUN_ASYNC(importMesh(...))).
NumWorkers == 2
\* Largest minImageCount and maxImageCount a surface reports.
MaxImageCount == 3
\* Largest width or height a surface or a window reports.
MaxExtent == 2
CleanFrames == 5
MaxMemoryTypes == 3
MaxMipLevels == 3
MaxFormats == 3
MaxCandidates == 3
MaxDevices == 2
MaxPoolCalls == 2
ShutdownFrames == 3
FenceFrames == 3

\* ------------------------------------------------------------ constants
\* Number of frame slots.
MAX_FRAMES_IN_FLIGHT == 2
VK_NULL_HANDLE == 0

Slots == 0 .. (MAX_FRAMES_IN_FLIGHT - 1)
Workers == 1 .. NumWorkers
RenderThread == NumWorkers + 1
\* The mesh imported synchronously by init() and the meshes of the tasks.
SkyboxMesh == NumWorkers + 1
Meshes == 1 .. (NumWorkers + 1)
\* Every rebuild creates a staging and a device-local buffer for the vertices
\* and for the indices; a rebuild needs at least one consumed import.
Handles == 1 .. (4 * (NumWorkers + 1))

AcquireResults == {"VK_SUCCESS", "VK_SUBOPTIMAL_KHR", "VK_ERROR_OUT_OF_DATE_KHR", "VK_ERROR_DEVICE_LOST"}
PresentResults == {"VK_SUCCESS", "VK_SUBOPTIMAL_KHR", "VK_ERROR_OUT_OF_DATE_KHR", "VK_ERROR_DEVICE_LOST"}

VARIABLES
    \* --- VulkanRenderer fields
    isRunning,          \* bool isRunning
    currentFrame,       \* int currentFrame
    framebufferResized, \* bool framebufferResized
    inFlightFences,     \* slot -> TRUE when the fence is signalled
    globalBuffers,      \* [vertexBuffer, indexBuffer]: handles, VK_NULL_HANDLE at start
    frames,             \* slot -> buffersToDelete, a sequence of handles
    modelQueue,         \* std::queue of completed imports (mesh ids)
    importModelMutex,   \* the set of threads that own the mutex ({} when free)
    models,             \* render instances [mesh, transform]
    swapChain,          \* the swapchain handle (its generation)
    \* --- collaborators
    storage,            \* meshes registered with the asset storage, in order
    inflight,           \* graphics queue: submitted, unfinished command buffers
    destroyed,          \* buffer handles passed to vkDestroyBuffer
    nextHandle,         \* next buffer handle the driver hands out
    \* --- control
    pc,                 \* position of the rendering thread
    workerPc,           \* position of each import task
    acquireResult,      \* result of vkAcquireNextImageKHR in this call
    presentResult,      \* result of threadSafePresent in this call
    resizedAtPresent,   \* framebufferResized as read at line 185
    \* --- observation
    frameNo,            \* number of drawFrame calls past the running check
    callLog,            \* API calls of the current drawFrame call, in order
    retiredAt,          \* handle -> frameNo when put on a buffersToDelete list
    destroyedAt,        \* handle -> frameNo when destroyed by cleanupFrameResources
    fenceWaits,         \* slot -> the waits on its fence since its last reset: "open"
                        \* while the waiting call runs, else that call's acquire result
    popped,             \* mesh -> number of times it was popped from modelQueue
    \* --- geometry
    meshPartOffsets,    \* per mesh part: [mesh, part, vertexOffset, indexOffset]
    uploaded,           \* [vertices, indices]: contents of the combined buffers
    uploadLog,          \* API calls of the uploads of the current rebuild, in order
    drained,            \* meshes popped by the current processLoadedMeshes call
    descriptorSets,     \* number of descriptor sets allocated from descriptorPool
    \* --- swapchain
    surface,            \* what the surface and the window report (environment)
    swapChainDetails,   \* [extent, images] as stored by createSwapChain
    swapChainImageViews,   \* one image view per swapchain image
    swapChainFramebuffers, \* one framebuffer per image view
    \* --- a single call of a function of the renderer, outside the frame loop
    fnCall,             \* the function called and its arguments
    fnResult,           \* what the call returned
    \* --- the graphics/present queue
    graphicsQueueMutex, \* the set of threads that own the mutex ({} when free)
    queuePc,            \* thread -> its position in its queue operations
    \* --- command pools
    threadCommandPools, \* thread -> its pool; NoEntry where the map has no entry
    poolPc,             \* thread -> its position in getCommandPool
    newCommandPool,     \* thread -> the pool its createCommandPool call made
    poolsReturned,      \* thread -> what its getCommandPool calls returned, in order
    nextPool            \* next command pool handle the driver hands out

vars == <<isRunning, currentFrame, framebufferResized, inFlightFences, globalBuffers,
          frames, modelQueue, importModelMutex, models, swapChain, storage, inflight,
          destroyed, nextHandle, pc, workerPc, acquireResult, presentResult,
          resizedAtPresent, frameNo, callLog, retiredAt, destroyedAt, fenceWaits, popped,
          surface, swapChainDetails, swapChainImageViews, swapChainFramebuffers,
          meshPartOffsets, uploaded, uploadLog, drained, descriptorSets, fnCall,
          fnResult,
          graphicsQueueMutex, queuePc, threadCommandPools, poolPc, newCommandPool,
          poolsReturned, nextPool>>

poolVars == <<threadCommandPools, poolPc, newCommandPool, poolsReturned, nextPool>>

meshVars == <<meshPartOffsets, uploaded, uploadLog, drained, descriptorSets>>

swapVars == <<surface, swapChainDetails, swapChainImageViews, swapChainFramebuffers>>

queueVars == <<graphicsQueueMutex, queuePc>>

callVars == <<fnCall, fnResult>>

\* The variables no step of the frame loop or of an import task touches.
auxVars == <<callVars, queueVars, poolVars>>

\* The variables of the frame loop, the import tasks and the GPU.
frameVars == <<isRunning, currentFrame, framebufferResized, inFlightFences,
               globalBuffers, frames, modelQueue, importModelMutex, models, swapChain,
               storage, inflight, destroyed, nextHandle, pc, workerPc, acquireResult,
               presentResult, resizedAtPresent, frameNo, callLog, retiredAt,
               destroyedAt, fenceWaits, popped, swapVars, meshVars>>

rendererVars == <<isRunning, currentFrame, framebufferResized, inFlightFences,
                  globalBuffers, frames, models, swapChain, storage, destroyed,
                  nextHandle, pc, acquireResult, presentResult, resizedAtPresent,
                  frameNo, callLog, retiredAt, destroyedAt, fenceWaits, popped, auxVars,
                  swapVars, meshVars>>

SeqToSet(s) == {s[i] : i \in 1 .. Len(s)}

\* ------------------------------------------------------------ 32-bit unsigned values
\* A uint32_t is the pair <<high 16 bits, low 16 bits>>.
\* static_cast<uint32_t>(int): the value modulo 2^32.
ToUint32(x) == <<(x \div 65536) % 65536, x % 65536>>

\* std::numeric_limits<uint32_t>::max()
UINT32_MAX == <<65535, 65535>>

\* a < b on uint32_t.
ULess(a, b) == a[1] < b[1] \/ (a[1] = b[1] /\ a[2] < b[2])

\* std::clamp(v, lo, hi) on uint32_t (lo <= hi).
clamp(v, lo, hi) == IF ULess(v, lo) THEN lo ELSE IF ULess(hi, v) THEN hi ELSE v

\* ------------------------------------------------------------ swapchain creation
\* chooseSwapExtent (lines 762-782): capabilities as reported by the surface,
\* windowInfo the int width and height of the platform window.
chooseSwapExtent(capabilities, windowInfo) ==
    IF capabilities.currentExtent.width # UINT32_MAX
    THEN capabilities.currentExtent
    ELSE [width |-> clamp(ToUint32(windowInfo.width),
                          capabilities.minImageExtent.width,
                          capabilities.maxImageExtent.width),
          height |-> clamp(ToUint32(windowInfo.height),
                           capabilities.minImageExtent.height,
                           capabilities.maxImageExtent.height)]

\* SwapChainManager::chooseSwapExtent: the size comes from glfwGetFramebufferSize.
SwapChainManager_chooseSwapExtent(capabilities, framebufferSize) ==
    IF capabilities.currentExtent.width # UINT32_MAX
    THEN capabilities.currentExtent
    ELSE [width |-> clamp(ToUint32(framebufferSize.width),
                          capabilities.minImageExtent.width,
                          capabilities.maxImageExtent.width),
          height |-> clamp(ToUint32(framebufferSize.height),
                           capabilities.minImageExtent.height,
                           capabilities.maxImageExtent.height)]

\* createSwapChain, lines 683-687: the image count requested.
imageCount_noZeroCheck(minImageCount, maxImageCount) ==
    IF minImageCount + 1 > maxImageCount THEN maxImageCount ELSE minImageCount + 1
imageCount(minImageCount, maxImageCount) ==
    IF maxImageCount > 0 /\ minImageCount + 1 > maxImageCount
    THEN maxImageCount
    ELSE minImageCount + 1

\* SwapChainManager::init, lines 73-77.
SwapChainManager_imageCount(minImageCount, maxImageCount) ==
    IF maxImageCount > 0 /\ minImageCount + 1 > maxImageCount
    THEN maxImageCount
    ELSE minImageCount + 1

\* ASSERT(expression, message): the expression is evaluated in every build
\* (the calls that create objects are made inside it); the caller goes on
\* when it holds and ends when it does not.
ASSERT(expression) == expression

\* The ASSERT of line 689.
extentIsValid_unchecked(extent) == TRUE
extentIsValid(extent) ==
    ASSERT(extent.width # ToUint32(0) /\ extent.height # ToUint32(0))

\* What vkCreateSwapchainKHR can do with a create info: succeed or fail; a
\* zero-area imageExtent is invalid usage, which a driver may accept or reject.
vkCreateSwapchainKHR == {"VK_SUCCESS", "VK_ERROR_INITIALIZATION_FAILED"}

\* createSwapChain (lines 675-730) for one answer of the driver: the
\* swapchain details stored, or the abort of a failed ASSERT.
createSwapChain(capabilities, windowInfo, vkResult) ==
    LET extent == chooseSwapExtent(capabilities, windowInfo)
        count == imageCount(capabilities.minImageCount, capabilities.maxImageCount)
    IN  IF ~extentIsValid(extent) THEN [status |-> "aborted", calls |-> <<>>]
        ELSE IF vkResult # "VK_SUCCESS"
             THEN [status |-> "aborted", calls |-> <<"vkCreateSwapchainKHR">>]
             ELSE [status |-> "created", calls |-> <<"vkCreateSwapchainKHR">>,
                   extent |-> extent, minImageCount |-> count]

\* SwapChainManager::init (lines 56-120): no check of the extent; a failed
\* vkCreateSwapchainKHR throws std::runtime_error.
SwapChainManager_init(capabilities, framebufferSize, vkResult) ==
    LET extent == SwapChainManager_chooseSwapExtent(capabilities, framebufferSize)
        count == SwapChainManager_imageCount(capabilities.minImageCount,
                                             capabilities.maxImageCount)
    IN  IF vkResult # "VK_SUCCESS"
        THEN [status |-> "aborted", calls |-> <<"vkCreateSwapchainKHR">>]
        ELSE [status |-> "created", calls |-> <<"vkCreateSwapchainKHR">>,
              extent |-> extent, minImageCount |-> count]

\* ------------------------------------------------------------ buffers and images
\* createBuffer (lines 1682-1709): the graphics-API calls made for a size.
createBuffer_unchecked(size) ==
    <<"vkCreateBuffer", "vkGetBufferMemoryRequirements", "vkAllocateMemory",
      "vkBindBufferMemory">>
createBuffer(size) ==
    IF ASSERT(size > 0)
    THEN <<"vkCreateBuffer", "vkGetBufferMemoryRequirements", "vkAllocateMemory",
           "vkBindBufferMemory">>
    ELSE <<"ASSERT">>

\* createImage (lines 1459-1500): the graphics-API calls made for a size.
createImage(width, height) ==
    IF ASSERT(width # ToUint32(0) /\ height # ToUint32(0))
    THEN <<"vkCreateImage", "vkGetImageMemoryRequirements", "vkAllocateMemory",
           "vkBindImageMemory">>
    ELSE <<"ASSERT">>

\* ------------------------------------------------------------ memory types
\* a & b on bit masks.
RECURSIVE BitAnd(_, _)
BitAnd(a, b) ==
    IF a = 0 \/ b = 0 THEN 0
    ELSE (a % 2) * (b % 2) + 2 * BitAnd(a \div 2, b \div 2)

\* 1 << i.
RECURSIVE ShiftLeft1(_)
ShiftLeft1(i) == IF i = 0 THEN 1 ELSE 2 * ShiftLeft1(i - 1)

\* The same loop without its break: the last such index.
RECURSIVE findMemoryType_loop_noBreak(_, _, _, _)
findMemoryType_loop_noBreak(i, memProperties, typeFilter, properties) ==
    IF i >= memProperties.memoryTypeCount THEN -1
    ELSE LET later == findMemoryType_loop_noBreak(i + 1, memProperties, typeFilter,
                                                  properties)
         IN  IF later # -1 THEN later
             ELSE IF /\ BitAnd(typeFilter, ShiftLeft1(i)) # 0
                     /\ BitAnd(memProperties.memoryTypes[i + 1], properties) = properties
                  THEN i
                  ELSE -1

\* The loop of findMemoryType (lines 1718-1725) from index i on: the first
\* index whose filter bit is set and whose flags contain the properties,
\* -1 for an optional left empty.
RECURSIVE findMemoryType_loop(_, _, _, _)
findMemoryType_loop(i, memProperties, typeFilter, properties) ==
    IF i >= memProperties.memoryTypeCount THEN -1
    ELSE IF /\ BitAnd(typeFilter, ShiftLeft1(i)) # 0
            /\ BitAnd(memProperties.memoryTypes[i + 1], properties) = properties
         THEN i
         ELSE findMemoryType_loop(i + 1, memProperties, typeFilter, properties)

\* findMemoryType (lines 1711-1729).
findMemoryType(memProperties, typeFilter, properties) ==
    LET memoryIndex == findMemoryType_loop(0, memProperties, typeFilter, properties)
    IN  IF ASSERT(memoryIndex # -1)
        THEN [status |-> "returned", memoryIndex |-> memoryIndex]
        ELSE [status |-> "ASSERT", memoryIndex |-> -1]

\* The memory properties a device can report: memoryTypeCount types in an
\* array that is longer than the count, each with a mask of property flags.
PropertyFlags == 0 .. 3
MemoryProperties ==
    [memoryTypeCount : 0 .. MaxMemoryTypes,
     memoryTypes : [1 .. MaxMemoryTypes -> PropertyFlags]]
TypeFilters == 0 .. (ShiftLeft1(MaxMemoryTypes + 1) - 1)

\* ------------------------------------------------------------ mipmaps
\* vkCmdPipelineBarrier on one mip level, vkCmdBlitImage between two.
Barrier(level, oldLayout, newLayout) ==
    [cmd |-> "vkCmdPipelineBarrier", baseMipLevel |-> level,
     oldLayout |-> oldLayout, newLayout |-> newLayout]
Blit(srcLevel, dstLevel, srcSize, dstSize) ==
    [cmd |-> "vkCmdBlitImage", srcMipLevel |-> srcLevel, dstMipLevel |-> dstLevel,
     srcSize |-> srcSize, dstSize |-> dstSize]

\* mip > 1 ? mip / 2 : 1 (lines 1419, 1441-1442).
HalfSize(mip) == IF mip > 1 THEN mip \div 2 ELSE 1

\* The loop of generateMipmaps (lines 1397-1443) from level i on.
RECURSIVE generateMipmaps_loop(_, _, _, _)
generateMipmaps_loop(i, maxMipLevels, mipWidth, mipHeight) ==
    IF ~(i < maxMipLevels) THEN <<>>
    ELSE << Barrier(i - 1, "TRANSFER_DST_OPTIMAL", "TRANSFER_SRC_OPTIMAL"),
            Blit(i - 1, i, <<mipWidth, mipHeight>>,
                 <<HalfSize(mipWidth), HalfSize(mipHeight)>>),
            Barrier(i - 1, "TRANSFER_SRC_OPTIMAL", "SHADER_READ_ONLY_OPTIMAL") >>
         \o generateMipmaps_loop(i + 1, maxMipLevels, HalfSize(mipWidth),
                                 HalfSize(mipHeight))

\* The barrier after the loop (lines 1445-1455).
generateMipmaps_last_viaTransferSource(maxMipLevels) ==
    << Barrier(maxMipLevels - 1, "TRANSFER_DST_OPTIMAL", "TRANSFER_SRC_OPTIMAL"),
       Barrier(maxMipLevels - 1, "TRANSFER_SRC_OPTIMAL", "SHADER_READ_ONLY_OPTIMAL") >>
generateMipmaps_last(maxMipLevels) ==
    << Barrier(maxMipLevels - 1, "TRANSFER_DST_OPTIMAL", "SHADER_READ_ONLY_OPTIMAL") >>

\* generateMipmaps (lines 1373-1457): the commands recorded into the
\* one-time command buffer, or the failed ASSERT on linear blitting.
generateMipmaps(maxMipLevels, linearBlit, texWidth, texHeight) ==
    IF ASSERT(linearBlit)
    THEN << [cmd |-> "beginSingleTimeCommands"] >>
         \o generateMipmaps_loop(1, maxMipLevels, texWidth, texHeight)
         \o generateMipmaps_last(maxMipLevels)
         \o << [cmd |-> "endSingleTimeCommands"] >>
    ELSE << [cmd |-> "ASSERT"] >>

\* The sizes of a texture.
TextureSizes == 1 .. ShiftLeft1(MaxMipLevels - 1)

\* ------------------------------------------------------------ physical devices
\* A queue family: whether it has VK_QUEUE_GRAPHICS_BIT and whether it can
\* present to the surface.
QueueFamily(graphics, present) == [graphics |-> graphics, present |-> present]

\* QueueFamilyIndices::isComplete: both optionals hold a value (-1 stands
\* for the empty optional).
QueueFamilyIndices_isComplete(familyIndices) ==
    familyIndices.graphicsFamily # -1 /\ familyIndices.presentFamily # -1

\* The loop of findQueueFamilies (lines 481-499) from family i on; family i
\* of the code is element i + 1 of the list.
RECURSIVE findQueueFamilies_loop(_, _, _)
findQueueFamilies_loop(i, queueFamilies, familyIndices) ==
    IF ~(i < Len(queueFamilies)) THEN familyIndices
    ELSE LET withGraphics ==
                 IF queueFamilies[i + 1].graphics
                 THEN [familyIndices EXCEPT !.graphicsFamily = i]
                 ELSE familyIndices
             withPresent ==
                 IF queueFamilies[i + 1].present
                 THEN [withGraphics EXCEPT !.presentFamily = i]
                 ELSE withGraphics
         IN  IF QueueFamilyIndices_isComplete(withPresent)
             THEN withPresent
             ELSE findQueueFamilies_loop(i + 1, queueFamilies, withPresent)

findQueueFamilies(physicalDevice) ==
    findQueueFamilies_loop(0, physicalDevice.queueFamilies,
                           [graphicsFamily |-> -1, presentFamily |-> -1])

\* isDeviceExtensionSupported (lines 511-529): every required extension,
\* VK_KHR_swapchain alone, is among the available ones.
getRequiredDeviceExtensions == {"VK_KHR_swapchain"}
isDeviceExtensionSupported(device) ==
    getRequiredDeviceExtensions \ device.extensions = {}

\* SwapChainSupportDetails::isComplete on the result of
\* querySwapChainSupport: neither list is empty.
SwapChainSupportDetails_isComplete(swapChainSupport) ==
    swapChainSupport.formats > 0 /\ swapChainSupport.presentModes > 0
querySwapChainSupport(device) ==
    [formats |-> device.formatCount, presentModes |-> device.presentModeCount]

\* isDeviceSuitable (lines 608-635).
isDeviceSuitable_withoutAnisotropy(device) ==
    /\ QueueFamilyIndices_isComplete(findQueueFamilies(device))
    /\ isDeviceExtensionSupported(device)
    /\ SwapChainSupportDetails_isComplete(querySwapChainSupport(device))
isDeviceSuitable(device) ==
    /\ QueueFamilyIndices_isComplete(findQueueFamilies(device))
    /\ isDeviceExtensionSupported(device)
    /\ SwapChainSupportDetails_isComplete(querySwapChainSupport(device))
    /\ device.samplerAnisotropy

\* The loop of pickAnySuitableDevice (lines 595-603) from device i on: the
\* position of the device picked, 0 (VK_NULL_HANDLE) when none is.
RECURSIVE pickAnySuitableDevice_loop(_, _)
pickAnySuitableDevice_loop(i, devices) ==
    IF i > Len(devices) THEN 0
    ELSE IF isDeviceSuitable(devices[i]) THEN i
         ELSE pickAnySuitableDevice_loop(i + 1, devices)

\* pickAnySuitableDevice (lines 585-606).
pickAnySuitableDevice(devices) ==
    IF ~ASSERT(Len(devices) # 0)
    THEN [status |-> "ASSERT", physicalDevice |-> 0]
    ELSE LET physicalDevice == pickAnySuitableDevice_loop(1, devices)
         IN  IF ASSERT(physicalDevice # 0)
             THEN [status |-> "returned", physicalDevice |-> physicalDevice]
             ELSE [status |-> "ASSERT", physicalDevice |-> 0]

\* createDevices (lines 531-583): the device picked, whether vkCreateDevice
\* was called and whether a logical device exists afterwards.
createDevices(devices, vkResult) ==
    LET picked == pickAnySuitableDevice(devices)
        failed == [status |-> "ASSERT", physicalDevice |-> picked.physicalDevice,
                   vkCreateDevice |-> FALSE, logicalDevice |-> FALSE]
    IN  IF picked.status = "ASSERT" THEN failed
        ELSE IF ~ASSERT(picked.physicalDevice # 0) THEN failed
        ELSE LET familyIndices == findQueueFamilies(devices[picked.physicalDevice])
             IN  IF ~ASSERT(familyIndices.graphicsFamily # -1
                            /\ familyIndices.presentFamily # -1)
                 THEN failed
                 ELSE IF ASSERT(vkResult = "VK_SUCCESS")
                      THEN [status |-> "returned",
                            physicalDevice |-> picked.physicalDevice,
                            vkCreateDevice |-> TRUE, logicalDevice |-> TRUE]
                      ELSE [failed EXCEPT !.vkCreateDevice = TRUE]

\* The physical devices vkEnumeratePhysicalDevices can report: one, two or
\* no queue families with a graphics or a present capability each, with or
\* without the swap-chain extension, surface formats, present modes and
\* anisotropic sampling.
DeviceQueueFamilies ==
    { << QueueFamily(TRUE, FALSE) >>,
      << QueueFamily(FALSE, TRUE) >>,
      << QueueFamily(FALSE, TRUE), QueueFamily(TRUE, FALSE) >>,
      << QueueFamily(FALSE, FALSE), QueueFamily(TRUE, TRUE) >> }
PhysicalDevices ==
    [queueFamilies : DeviceQueueFamilies,
     extensions : {{}, {"VK_KHR_swapchain"}},
     formatCount : 0 .. 1,
     presentModeCount : 0 .. 1,
     samplerAnisotropy : BOOLEAN]
EnumeratedDevices == UNION {[1 .. n -> PhysicalDevices] : n \in 0 .. MaxDevices}
vkCreateDevice == {"VK_SUCCESS", "VK_ERROR_INITIALIZATION_FAILED"}

\* ------------------------------------------------------------ surface formats
\* VkSurfaceFormatKHR values a surface can report.
VkFormats == {"VK_FORMAT_B8G8R8A8_SRGB", "VK_FORMAT_B8G8R8A8_UNORM", "VK_FORMAT_R8G8B8A8_SRGB"}
VkColorSpaces == {"VK_COLOR_SPACE_SRGB_NONLINEAR_KHR", "VK_COLOR_SPACE_EXTENDED_SRGB_LINEAR_EXT"}
VkSurfaceFormats == [format : VkFormats, colorSpace : VkColorSpaces]

\* The for loop of chooseSwapSurfaceFormat (lines 736-742) from element i
\* on, and the fallback of line 744.
RECURSIVE chooseSwapSurfaceFormat_loop_formatOnly(_, _)
chooseSwapSurfaceFormat_loop_formatOnly(i, availableFormats) ==
    IF i > Len(availableFormats) THEN availableFormats[1]
    ELSE IF availableFormats[i].format = "VK_FORMAT_B8G8R8A8_SRGB"
         THEN availableFormats[i]
         ELSE chooseSwapSurfaceFormat_loop_formatOnly(i + 1, availableFormats)
RECURSIVE chooseSwapSurfaceFormat_loop(_, _)
chooseSwapSurfaceFormat_loop(i, availableFormats) ==
    IF i > Len(availableFormats) THEN availableFormats[1]
    ELSE IF /\ availableFormats[i].format = "VK_FORMAT_B8G8R8A8_SRGB"
            /\ availableFormats[i].colorSpace = "VK_COLOR_SPACE_SRGB_NONLINEAR_KHR"
         THEN availableFormats[i]
         ELSE chooseSwapSurfaceFormat_loop(i + 1, availableFormats)

chooseSwapSurfaceFormat(availableFormats) ==
    chooseSwapSurfaceFormat_loop(1, availableFormats)

\* SwapChainManager::chooseSwapSurfaceFormat (UniformBufferObject.h 215-228).
RECURSIVE SwapChainManager_chooseSwapSurfaceFormat_loop(_, _)
SwapChainManager_chooseSwapSurfaceFormat_loop(i, availableFormats) ==
    IF i > Len(availableFormats) THEN availableFormats[1]
    ELSE IF /\ availableFormats[i].format = "VK_FORMAT_B8G8R8A8_SRGB"
            /\ availableFormats[i].colorSpace = "VK_COLOR_SPACE_SRGB_NONLINEAR_KHR"
         THEN availableFormats[i]
         ELSE SwapChainManager_chooseSwapSurfaceFormat_loop(i + 1, availableFormats)

SwapChainManager_chooseSwapSurfaceFormat(availableFormats) ==
    SwapChainManager_chooseSwapSurfaceFormat_loop(1, availableFormats)

\* The lists of formats a surface can report, the empty one included.
AvailableFormats == UNION {[1 .. n -> VkSurfaceFormats] : n \in 0 .. MaxFormats}

\* assert(!availableFormats.empty()) stops the program where asserts are
\* compiled in; where they are not, availableFormats[0] of an empty vector
\* reads outside it and any value can come back.
EmptyFormatsOutcomes == {"assert"} \cup VkSurfaceFormats

\* ------------------------------------------------------------ surfaces
\* The values a surface reports and a window has.
ImageCounts == 0 .. MaxImageCount
ExtentValues == 0 .. MaxExtent
WindowSizes == (-1) .. (MaxExtent + 1)
Extent(w, h) == [width |-> w, height |-> h]
Extent32(w, h) == [width |-> ToUint32(w), height |-> ToUint32(h)]
\* currentExtent when the surface leaves the size to the swapchain.
UndefinedExtent == [width |-> UINT32_MAX, height |-> UINT32_MAX]
CurrentExtents ==
    {Extent32(w, h) : w \in ExtentValues, h \in ExtentValues}
      \cup {[width |-> UINT32_MAX, height |-> ToUint32(h)] : h \in ExtentValues}
      \cup {[width |-> ToUint32(w), height |-> UINT32_MAX] : w \in ExtentValues}
      \cup {UndefinedExtent}

\* The surfaces and windows a swapchain is created for: a surface with a
\* defined extent (zero-area while minimized), or one that leaves the extent
\* to the window within [1, MaxExtent]; two or more images, with or
\* without an upper limit.
SurfaceCapabilities ==
    {[currentExtent |-> ce, minImageExtent |-> Extent32(1, 1),
      maxImageExtent |-> Extent32(MaxExtent, MaxExtent),
      minImageCount |-> 2, maxImageCount |-> mx] :
        ce \in {UndefinedExtent, Extent32(0, 0), Extent32(1, 1), Extent32(MaxExtent, 1)},
        mx \in {0, 2}}
      \cup
    {[currentExtent |-> ce, minImageExtent |-> Extent32(0, 0),
      maxImageExtent |-> Extent32(MaxExtent, MaxExtent),
      minImageCount |-> 2, maxImageCount |-> 0] :
        ce \in {UndefinedExtent, Extent32(0, 1)}}
WindowInfos == {Extent(0, 0), Extent(1, 1), Extent(MaxExtent, 0)}

\* The states of the surface and the window the frame loop meets: as at
\* start, resized, minimized, restored while the surface still reports no
\* area, and a surface that leaves the extent to the window.  extraImages:
\* the images the driver creates beyond the count requested.
InitialSurface ==
    [capabilities |-> [currentExtent |-> Extent32(1, 1),
                       minImageExtent |-> Extent32(1, 1),
                       maxImageExtent |-> Extent32(MaxExtent, MaxExtent),
                       minImageCount |-> 2, maxImageCount |-> 0],
     windowInfo |-> Extent(1, 1), extraImages |-> 0]
ResizedSurface ==
    [capabilities |-> [currentExtent |-> Extent32(MaxExtent, 1),
                       minImageExtent |-> Extent32(1, 1),
                       maxImageExtent |-> Extent32(MaxExtent, MaxExtent),
                       minImageCount |-> 2, maxImageCount |-> 2],
     windowInfo |-> Extent(1, 1), extraImages |-> 0]
MinimizedSurface ==
    [capabilities |-> [currentExtent |-> Extent32(0, 0),
                       minImageExtent |-> Extent32(1, 1),
                       maxImageExtent |-> Extent32(MaxExtent, MaxExtent),
                       minImageCount |-> 2, maxImageCount |-> 0],
     windowInfo |-> Extent(0, 0), extraImages |-> 0]
RestoringSurface ==
    [capabilities |-> [currentExtent |-> Extent32(0, 0),
                       minImageExtent |-> Extent32(1, 1),
                       maxImageExtent |-> Extent32(MaxExtent, MaxExtent),
                       minImageCount |-> 2, maxImageCount |-> 0],
     windowInfo |-> Extent(1, 1), extraImages |-> 0]
WindowSizedSurface ==
    [capabilities |-> [currentExtent |-> UndefinedExtent,
                       minImageExtent |-> Extent32(1, 1),
                       maxImageExtent |-> Extent32(MaxExtent, MaxExtent),
                       minImageCount |-> 2, maxImageCount |-> 2],
     windowInfo |-> Extent(MaxExtent + 1, 1), extraImages |-> 1]
FrameLoopSurfaces ==
    {InitialSurface, ResizedSurface, MinimizedSurface, RestoringSurface,
     WindowSizedSurface}

\* The images of a swapchain, its image views (createImageViews, lines
\* 837-848) and its framebuffers (createFramebuffers, lines 1135-1160).
swapChainImages(handle, count) == [i \in 1 .. count |-> [swapChain |-> handle, index |-> i]]
createImageViews(images) == [i \in 1 .. Len(images) |-> [image |-> images[i]]]
createFramebuffers_oneShort(imageViews, extent) ==
    [i \in 1 .. (Len(imageViews) - 1) |-> [imageView |-> imageViews[i], extent |-> extent]]
createFramebuffers(imageViews, extent) ==
    [i \in 1 .. Len(imageViews) |-> [imageView |-> imageViews[i], extent |-> extent]]

\* ------------------------------------------------------------ initial state
\* The state of the renderer at the end of init(): fences created
\* signalled, no geometry buffer yet, the skybox import already queued, the
\* tasks started; running and position tell whether line 63 has run.
InitState(running, position) ==
    /\ isRunning = running
    /\ currentFrame = 0
    /\ framebufferResized = FALSE
    /\ inFlightFences = [s \in Slots |-> TRUE]
    /\ globalBuffers = [vertexBuffer |-> VK_NULL_HANDLE, indexBuffer |-> VK_NULL_HANDLE,
                        totalVertices |-> 0, totalIndices |-> 0]
    /\ meshPartOffsets = <<>>
    /\ uploaded = [vertices |-> <<>>, indices |-> <<>>]
    /\ uploadLog = <<>>
    /\ drained = <<>>
    /\ descriptorSets = 0
    /\ frames = [s \in Slots |-> <<>>]
    /\ modelQueue = <<SkyboxMesh>>
    /\ importModelMutex = {}
    /\ models = <<>>
    /\ swapChain = 1
    /\ storage = <<>>
    /\ inflight = <<>>
    /\ destroyed = {}
    /\ nextHandle = 1
    /\ pc = position
    /\ workerPc = [w \in Workers |-> "parse"]
    /\ acquireResult = "none"
    /\ presentResult = "none"
    /\ resizedAtPresent = FALSE
    /\ frameNo = 0
    /\ callLog = <<>>
    /\ retiredAt = [h \in Handles |-> 0]
    /\ destroyedAt = [h \in Handles |-> 0]
    /\ fenceWaits = [s \in Slots |-> <<>>]
    /\ popped = [m \in Meshes |-> 0]
    /\ surface = InitialSurface
    /\ LET created == createSwapChain(surface.capabilities, surface.windowInfo, "VK_SUCCESS")
           images == swapChainImages(swapChain, created.minImageCount + surface.extraImages)
       IN  /\ swapChainDetails = [extent |-> created.extent, images |-> images]
           /\ swapChainImageViews = createImageViews(images)
           /\ swapChainFramebuffers =
                  createFramebuffers(createImageViews(images), created.extent)
    /\ fnCall = [fn |-> "none"]
    /\ fnResult = "none"
    /\ graphicsQueueMutex = {}
    /\ queuePc = [t \in Workers \cup {RenderThread} |->
                     IF t = RenderThread THEN "processLoadedMeshes" ELSE "importing"]
    /\ threadCommandPools = [t \in Workers \cup {RenderThread} |-> -1]
    /\ poolPc = [t \in Workers \cup {RenderThread} |-> "outside"]
    /\ newCommandPool = [t \in Workers \cup {RenderThread} |-> 0]
    /\ poolsReturned = [t \in Workers \cup {RenderThread} |-> <<>>]
    /\ nextPool = 1

\* The state when init() returns.
Init == InitState(TRUE, "idle")

\* The state when init() is about to set isRunning (line 63); the renderer
\* is not running until then.
BeforeInitReturns == InitState(FALSE, "init")

\* ------------------------------------------------------------ helpers
Log(entries) == callLog \o entries

\* vkQueueWaitIdle(graphicsQueue) in endSingleTimeCommands returns once the
\* graphics queue holds no unfinished submission.
QueueWaitIdle_skipped == TRUE
QueueWaitIdle == inflight = <<>>

\* vkDeviceWaitIdle(logicalDevice) returns once no queue holds unfinished work.
deviceWaitIdle_noWait == TRUE
deviceWaitIdle == inflight = <<>>

\* cleanupFrameResources: the slot whose buffersToDelete list is drained.
frameToClean_current(cf) == cf
frameToClean(cf) == (cf + 1) % MAX_FRAMES_IN_FLIGHT

\* Some import task is inside its critical section (emplace in progress).
WorkerInPush == \E w \in Workers : workerPc[w] = "locked"

\* ------------------------------------------------------------ drawFrame
\* Line 131: the slot index after the one in frame.
nextFrame_sameSlot(frame) == (frame + MAX_FRAMES_IN_FLIGHT) % MAX_FRAMES_IN_FLIGHT
nextFrame(frame) == (frame + 1) % MAX_FRAMES_IN_FLIGHT

\* Line 126: the condition on which drawFrame returns at once.
notRunning_ignored(running) == FALSE
notRunning(running) == ~running

\* Line 63: init() sets isRunning and returns.
Init_Finish ==
    /\ pc = "init"
    /\ isRunning' = TRUE
    /\ pc' = "idle"
    /\ UNCHANGED <<auxVars, swapVars, meshVars>>
    /\ UNCHANGED <<currentFrame, framebufferResized, inFlightFences, globalBuffers,
                   frames, modelQueue, importModelMutex, models, swapChain, storage,
                   inflight, destroyed, nextHandle, workerPc, acquireResult,
                   presentResult, resizedAtPresent, frameNo, callLog, retiredAt,
                   destroyedAt, fenceWaits, popped>>

\* Lines 126-129: drawFrame called while the renderer is not running
\* returns at the check; the call has made no call of its own.
DrawFrame_NotRunning ==
    /\ pc \in {"init", "idle"}
    /\ notRunning(isRunning)
    /\ callLog' = << <<"return", currentFrame>> >>
    /\ acquireResult' = "none"
    /\ presentResult' = "none"
    /\ resizedAtPresent' = FALSE
    /\ UNCHANGED <<auxVars, swapVars, meshVars>>
    /\ UNCHANGED <<isRunning, currentFrame, framebufferResized, inFlightFences,
                   globalBuffers, frames, modelQueue, importModelMutex, models,
                   swapChain, storage, inflight, destroyed, nextHandle, pc, workerPc,
                   frameNo, retiredAt, destroyedAt, fenceWaits, popped>>

\* Lines 126-133: running check, slot advance, cleanupFrameResources.
DrawFrame_Begin(maxFrames) ==
    /\ pc = "idle"
    /\ ~notRunning(isRunning)
    /\ frameNo < maxFrames
    /\ LET cf == nextFrame(currentFrame)
           ftc == frameToClean(cf)
           doomed == SeqToSet(frames[ftc])
       IN  /\ currentFrame' = cf
           /\ frames' = [frames EXCEPT ![ftc] = <<>>]
           /\ destroyed' = destroyed \cup doomed
           /\ destroyedAt' = [h \in Handles |->
                                IF h \in doomed THEN frameNo + 1 ELSE destroyedAt[h]]
           /\ callLog' = << <<"advance", cf>>, <<"cleanupFrameResources", ftc>> >>
    /\ frameNo' = frameNo + 1
    /\ acquireResult' = "none"
    /\ presentResult' = "none"
    /\ resizedAtPresent' = FALSE
    /\ pc' = "waitFence"
    /\ UNCHANGED <<auxVars, swapVars, meshVars>>
    /\ UNCHANGED <<isRunning, framebufferResized, inFlightFences, globalBuffers,
                   modelQueue, importModelMutex, models, swapChain, storage, inflight,
                   nextHandle, workerPc, retiredAt, fenceWaits, popped>>

DrawFrameBegin == DrawFrame_Begin(MaxFrames)

\* vkWaitForFences with VK_TRUE and UINT64_MAX returns once the fence is
\* signalled.
vkWaitForFences_noWait(fence) == TRUE
vkWaitForFences(fence) == fence

\* Line 135: vkWaitForFences on the current slot's fence, no timeout.
WaitForFences ==
    /\ pc = "waitFence"
    /\ vkWaitForFences(inFlightFences[currentFrame])
    /\ fenceWaits' = [fenceWaits EXCEPT ![currentFrame] = Append(@, "open")]
    /\ callLog' = Log(<< <<"vkWaitForFences", currentFrame>> >>)
    /\ pc' = "acquire"
    /\ UNCHANGED <<auxVars, swapVars, meshVars>>
    /\ UNCHANGED <<isRunning, currentFrame, framebufferResized, inFlightFences,
                   globalBuffers, frames, modelQueue, importModelMutex, models,
                   swapChain, storage, inflight, destroyed, nextHandle, workerPc,
                   acquireResult, presentResult, resizedAtPresent, frameNo, retiredAt,
                   destroyedAt, popped>>

\* acquireNextImage (lines 784-800): where drawFrame continues for a result.
acquireNextImage_noReturn(result) ==
    IF result \in {"VK_SUCCESS", "VK_SUBOPTIMAL_KHR", "VK_ERROR_OUT_OF_DATE_KHR"}
    THEN "updateUniform" ELSE "aborted"
acquireNextImage_recreateOnSuboptimal(result) ==
    IF result \in {"VK_ERROR_OUT_OF_DATE_KHR", "VK_SUBOPTIMAL_KHR"} THEN "recreateAcquire"
    ELSE IF result = "VK_SUCCESS" THEN "updateUniform"
    ELSE "aborted"
acquireNextImage(result) ==
    IF result = "VK_ERROR_OUT_OF_DATE_KHR" THEN "recreateAcquire"
    ELSE IF result \in {"VK_SUCCESS", "VK_SUBOPTIMAL_KHR"} THEN "updateUniform"
    ELSE "aborted"

\* Lines 135-141: the fences when drawFrame acquires; the fence of the slot
\* is not reset before line 145.
fencesAtAcquire_reset(fences, slot) == [fences EXCEPT ![slot] = FALSE]
fencesAtAcquire(fences, slot) == fences

\* Lines 137-141: acquire with the slot's image-available semaphore.
AcquireNextImage ==
    /\ pc = "acquire"
    /\ \E result \in AcquireResults :
        /\ acquireResult' = result
        /\ pc' = acquireNextImage(result)
    /\ inFlightFences' = fencesAtAcquire(inFlightFences, currentFrame)
    /\ callLog' = Log(<< <<"vkAcquireNextImageKHR", currentFrame>> >>)
    /\ UNCHANGED <<auxVars, swapVars, meshVars>>
    /\ UNCHANGED <<isRunning, currentFrame, framebufferResized,
                   globalBuffers, frames, modelQueue, importModelMutex, models,
                   swapChain, storage, inflight, destroyed, nextHandle, workerPc,
                   presentResult, resizedAtPresent, frameNo, retiredAt, destroyedAt,
                   fenceWaits, popped>>

\* recreateSwapChain and cleanupSwapChain (lines 802-835): the calls, in order.
recreateSwapChain_createFirst(old, new) ==
    << <<"handleMinimization", old>>, <<"deviceWaitIdle", old>>,
       <<"createSwapChain", new>>,
       <<"destroyDepthResources", old>>, <<"destroyColorResources", old>>,
       <<"destroyFramebuffers", old>>, <<"destroyImageViews", old>>,
       <<"vkDestroySwapchainKHR", old>>,
       <<"createImageViews", new>>,
       <<"createColorResources", new>>, <<"createDepthResources", new>>,
       <<"createFramebuffers", new>> >>
recreateSwapChain(old, new) ==
    << <<"handleMinimization", old>>, <<"deviceWaitIdle", old>>,
       <<"destroyDepthResources", old>>, <<"destroyColorResources", old>>,
       <<"destroyFramebuffers", old>>, <<"destroyImageViews", old>>,
       <<"vkDestroySwapchainKHR", old>>,
       <<"createSwapChain", new>>, <<"createImageViews", new>>,
       <<"createColorResources", new>>, <<"createDepthResources", new>>,
       <<"createFramebuffers", new>> >>

\* SwapChainManager::recreate: the calls, in order (this manager owns no
\* colour or depth attachment).
SwapChainManager_recreate(old, new) ==
    << <<"handleMinimization", old>>, <<"deviceWaitIdle", old>>,
       <<"destroyFramebuffers", old>>, <<"destroyImageViews", old>>,
       <<"vkDestroySwapchainKHR", old>>,
       <<"createSwapChain", new>>, <<"createImageViews", new>>,
       <<"createFramebuffers", new>> >>

\* handleMinimization (CORE->graphicsLibrary, line 804): returns once the
\* window has a nonzero area.
handleMinimization ==
    surface.windowInfo.width # 0 /\ surface.windowInfo.height # 0

\* framebufferResized after recreateSwapChain (lines 802-814), which does
\* not assign it.
resizedAfterRecreate_cleared(resized) == FALSE
resizedAfterRecreate(resized) == resized

\* recreateSwapChain as called from acquireNextImage (line 793) and from the
\* post-present check (line 188); drawFrame returns after either.  The
\* swapchain is created for the surface as it is now; the ASSERT of
\* createSwapChain ends the call after cleanupSwapChain.
RecreateSwapChain ==
    /\ pc \in {"recreateAcquire", "recreatePresent"}
    /\ handleMinimization
    /\ deviceWaitIdle
    /\ LET created == createSwapChain(surface.capabilities, surface.windowInfo,
                                      "VK_SUCCESS")
           calls == recreateSwapChain(swapChain, swapChain + 1)
           images == swapChainImages(swapChain + 1,
                                     created.minImageCount + surface.extraImages)
       IN  IF created.status = "created"
           THEN /\ swapChain' = swapChain + 1
                /\ swapChainDetails' = [extent |-> created.extent, images |-> images]
                /\ swapChainImageViews' = createImageViews(images)
                /\ swapChainFramebuffers' =
                       createFramebuffers(createImageViews(images), created.extent)
                /\ callLog' = Log(calls)
                /\ pc' = "idle"
           ELSE /\ callLog' = Log(SubSeq(calls, 1,
                                  CHOOSE i \in 1 .. Len(calls) :
                                      calls[i][1] = "createSwapChain"))
                /\ pc' = "aborted"
                /\ UNCHANGED <<swapChain, swapChainDetails, swapChainImageViews,
                               swapChainFramebuffers>>
    /\ fenceWaits' = IF pc = "recreateAcquire"
                     THEN [fenceWaits EXCEPT ![currentFrame] =
                              [@ EXCEPT ![Len(@)] = acquireResult]]
                     ELSE fenceWaits
    /\ UNCHANGED <<auxVars, surface, meshVars>>
    /\ framebufferResized' = resizedAfterRecreate(framebufferResized)
    /\ UNCHANGED <<isRunning, currentFrame, inFlightFences,
                   globalBuffers, frames, modelQueue, importModelMutex, models,
                   storage, inflight, destroyed, nextHandle, workerPc, acquireResult,
                   presentResult, resizedAtPresent, frameNo, retiredAt, destroyedAt,
                   popped>>

\* Line 143: updateUniformBuffer(currentFrame).
UpdateUniformBuffer ==
    /\ pc = "updateUniform"
    /\ callLog' = Log(<< <<"updateUniformBuffer", currentFrame>> >>)
    /\ pc' = "plmLock"
    /\ UNCHANGED <<auxVars, swapVars, meshVars>>
    /\ UNCHANGED <<isRunning, currentFrame, framebufferResized, inFlightFences,
                   globalBuffers, frames, modelQueue, importModelMutex, models,
                   swapChain, storage, inflight, destroyed, nextHandle, workerPc,
                   acquireResult, presentResult, resizedAtPresent, frameNo, retiredAt,
                   destroyedAt, fenceWaits, popped>>

\* ------------------------------------------------------------ processLoadedMeshes
\* Lines 212-215: if (modelQueue.empty()) return; whether the call returns.
returnsWhenEmpty_never(queue) == FALSE
returnsWhenEmpty(queue) == queue = <<>>

\* Lines 211-215: lock the import mutex, return when the queue is empty
\* (the unique_lock releases the mutex on return).
ProcessLoadedMeshes_Lock ==
    /\ pc = "plmLock"
    /\ importModelMutex = {}
    /\ callLog' = Log(<< <<"processLoadedMeshes", currentFrame>> >>)
    /\ IF returnsWhenEmpty(modelQueue)
       THEN /\ importModelMutex' = {}
            /\ pc' = "submit"
       ELSE /\ importModelMutex' = {RenderThread}
            /\ pc' = "plmWhile"
    /\ drained' = <<>>
    /\ UNCHANGED <<auxVars, swapVars, meshPartOffsets, uploaded, uploadLog,
                   descriptorSets>>
    /\ UNCHANGED <<isRunning, currentFrame, framebufferResized, inFlightFences,
                   globalBuffers, frames, modelQueue, models, swapChain, storage,
                   inflight, destroyed, nextHandle, workerPc, acquireResult,
                   presentResult, resizedAtPresent, frameNo, retiredAt, destroyedAt,
                   fenceWaits, popped>>

\* What modelQueue.empty() can return to the rendering thread: the truth,
\* unless it reads the queue without the mutex while a task is pushing
\* (a data race: either answer).
EmptyReads ==
    IF RenderThread \notin importModelMutex /\ WorkerInPush
    THEN BOOLEAN
    ELSE {modelQueue = <<>>}

\* Line 217: the loop condition while (!modelQueue.empty()).
ProcessLoadedMeshes_While ==
    /\ pc = "plmWhile"
    /\ \E isEmpty \in EmptyReads :
        pc' = IF isEmpty THEN "plmRebuild" ELSE "plmPop"
    /\ UNCHANGED <<auxVars, swapVars, meshVars>>
    /\ UNCHANGED <<isRunning, currentFrame, framebufferResized, inFlightFences,
                   globalBuffers, frames, modelQueue, importModelMutex, models,
                   swapChain, storage, inflight, destroyed, nextHandle, workerPc,
                   acquireResult, presentResult, resizedAtPresent, frameNo, callLog,
                   retiredAt, destroyedAt, fenceWaits, popped>>

\* The queue after front() and pop() by the rendering thread: the tail, or,
\* when the pop races with a push, any of the states the two unsynchronised
\* writes can leave.
QueueAfterPop ==
    IF modelQueue = <<>> THEN {<<>>}
    ELSE IF RenderThread \notin importModelMutex /\ WorkerInPush
         THEN {Tail(modelQueue), modelQueue, <<>>}
         ELSE {Tail(modelQueue)}

\* lock.unlock() at line 221: releases the mutex when the unique_lock owns
\* it, throws std::system_error when it does not.
unlock(owner) == owner \in importModelMutex

\* CORE->world.getStorage()->addNewMesh(meshPath, newMesh), line 223: the
\* storage keeps the mesh object it is given, after the ones it has.
addNewMesh(meshes, newMesh) == Append(meshes, newMesh)

\* Lines 219-228: one iteration of the drain loop: front, pop, unlock,
\* addNewMesh, models.push_back.
ProcessLoadedMeshes_Pop ==
    /\ pc = "plmPop"
    /\ \E q \in QueueAfterPop :
        /\ modelQueue' = q
        /\ IF modelQueue = <<>> \/ q = modelQueue
           THEN UNCHANGED <<popped, drained>>
           ELSE /\ popped' = [popped EXCEPT ![Head(modelQueue)] = @ + 1]
                /\ drained' = Append(drained, Head(modelQueue))
        /\ IF unlock(RenderThread)
           THEN /\ importModelMutex' = importModelMutex \ {RenderThread}
                /\ storage' = addNewMesh(storage, Head(modelQueue))
                /\ models' = Append(models,
                                    [mesh |-> Head(modelQueue), transform |-> "identity"])
                /\ pc' = "plmWhile"
           ELSE /\ pc' = "aborted"
                /\ UNCHANGED <<importModelMutex, storage, models>>
    /\ UNCHANGED <<auxVars, swapVars, meshPartOffsets, uploaded, uploadLog,
                   descriptorSets>>
    /\ UNCHANGED <<isRunning, currentFrame, framebufferResized, inFlightFences,
                   globalBuffers, frames, swapChain, inflight, destroyed, nextHandle,
                   workerPc, acquireResult, presentResult, resizedAtPresent, frameNo,
                   callLog, retiredAt, destroyedAt, fenceWaits>>

\* createVertexBuffer / createIndexBuffer (lines 1645-1651, 1744-1750): the
\* buffersToDelete list of the current slot after retiring a buffer.
Retire_twice(list, buffer) ==
    IF buffer # VK_NULL_HANDLE THEN Append(Append(list, buffer), buffer) ELSE list
Retire(list, buffer) ==
    IF buffer # VK_NULL_HANDLE THEN Append(list, buffer) ELSE list

\* The mesh an import produced: mesh 1 has 3 parts, mesh 2 has 2 parts, every
\* other mesh 1 part; part p has p vertices and p + 1 indices.
NumParts(m) == IF m = 1 THEN 3 ELSE IF m = 2 THEN 2 ELSE 1
Vertices(m, p) == [k \in 1 .. p |-> <<m, p, k>>]
Indices(m, p) == [k \in 1 .. (p + 1) |-> (k - 1) % p]

\* The parts of the meshes of the storage, in the order of the loops of
\* lines 234-236.
RECURSIVE MeshParts(_)
MeshParts(meshes) ==
    IF meshes = <<>> THEN <<>>
    ELSE [p \in 1 .. NumParts(Head(meshes)) |-> <<Head(meshes), p>>]
           \o MeshParts(Tail(meshes))

\* Lines 231-244: the loop that gives every part its offsets and appends its
\* vertices and indices to the combined lists.
RECURSIVE Combine_indexOffsetOfMesh(_, _, _, _)
Combine_indexOffsetOfMesh(parts, allVertices, allIndices, offsets) ==
    IF parts = <<>>
    THEN [allVertices |-> allVertices, allIndices |-> allIndices, offsets |-> offsets]
    ELSE LET m == Head(parts)[1]
             p == Head(parts)[2]
             first == CHOOSE i \in 1 .. (Len(offsets) + 1) :
                          /\ i <= Len(offsets) => offsets[i].mesh = m
                          /\ \A j \in 1 .. (i - 1) : offsets[j].mesh # m
         IN  Combine_indexOffsetOfMesh(Tail(parts),
                     allVertices \o Vertices(m, p),
                     allIndices \o Indices(m, p),
                     Append(offsets, [mesh |-> m, part |-> p,
                                      vertexOffset |-> Len(allVertices),
                                      indexOffset |->
                                          IF first <= Len(offsets)
                                          THEN Len(allIndices) - offsets[first].indexOffset
                                          ELSE 0]))
RECURSIVE Combine(_, _, _, _)
Combine(parts, allVertices, allIndices, offsets) ==
    IF parts = <<>>
    THEN [allVertices |-> allVertices, allIndices |-> allIndices, offsets |-> offsets]
    ELSE LET m == Head(parts)[1]
             p == Head(parts)[2]
         IN  Combine(Tail(parts),
                     allVertices \o Vertices(m, p),
                     allIndices \o Indices(m, p),
                     Append(offsets, [mesh |-> m, part |-> p,
                                      vertexOffset |-> Len(allVertices),
                                      indexOffset |-> Len(allIndices)]))

\* bufferSize = sizeof(element) * elements.size(), in units of sizeof(element).
bufferSize(elements) == Len(elements)

\* createVertexBuffer / createIndexBuffer (lines 1653-1677, 1752-1774): the
\* calls from the staging buffer to the submit of copyBuffer; a failed
\* ASSERT of createBuffer ends the call.
uploadSubmit(size, staging, dst) ==
    IF createBuffer(size) = <<"ASSERT">>
    THEN << <<"ASSERT", staging>> >>
    ELSE << <<"createBuffer", staging>>, <<"vkMapMemory", staging>>,
            <<"memcpy", staging>>, <<"vkUnmapMemory", staging>>,
            <<"createBuffer", dst>>,
            <<"vkAllocateCommandBuffers", dst>>, <<"vkBeginCommandBuffer", dst>>,
            <<"vkCmdCopyBuffer", dst>>, <<"vkEndCommandBuffer", dst>>,
            <<"threadSafeQueueSubmit", dst>> >>

\* endSingleTimeCommands from its vkQueueWaitIdle (lines 1315-1319), then the
\* release of the staging buffer (lines 1678-1679).
uploadFinish(staging, dst) ==
    << <<"vkQueueWaitIdle", dst>>, <<"vkFreeCommandBuffers", dst>>,
       <<"vkDestroyBuffer", staging>>, <<"vkFreeMemory", staging>> >>

\* createVertexBuffer (lines 1643-1680) and createIndexBuffer (lines
\* 1742-1777) as whole calls: every call made for a list of elements.
createVertexBuffer(vertices, staging, dst) ==
    IF createBuffer(bufferSize(vertices)) = <<"ASSERT">>
    THEN uploadSubmit(bufferSize(vertices), staging, dst)
    ELSE uploadSubmit(bufferSize(vertices), staging, dst) \o uploadFinish(staging, dst)

createIndexBuffer(indices, staging, dst) ==
    IF createBuffer(bufferSize(indices)) = <<"ASSERT">>
    THEN uploadSubmit(bufferSize(indices), staging, dst)
    ELSE uploadSubmit(bufferSize(indices), staging, dst) \o uploadFinish(staging, dst)

\* Lines 231-246: the offsets, then createVertexBuffer up to the submit of
\* its copy.
ProcessLoadedMeshes_Rebuild ==
    /\ pc = "plmRebuild"
    /\ LET combined == Combine(MeshParts(storage), <<>>, <<>>, <<>>)
           size == bufferSize(combined.allVertices)
           old == globalBuffers.vertexBuffer
           staging == nextHandle
           dst == nextHandle + 1
       IN  /\ meshPartOffsets' = combined.offsets
           /\ frames' = [frames EXCEPT ![currentFrame] = Retire(@, old)]
           /\ retiredAt' = [h \in Handles |->
                              IF h = old THEN frameNo ELSE retiredAt[h]]
           /\ uploadLog' = uploadSubmit(size, staging, dst)
           /\ IF createBuffer(size) = <<"ASSERT">>
              THEN /\ pc' = "aborted"
                   /\ UNCHANGED <<globalBuffers, nextHandle, inflight>>
              ELSE /\ globalBuffers' = [globalBuffers EXCEPT !.vertexBuffer = dst]
                   /\ nextHandle' = nextHandle + 2
                   /\ inflight' = Append(inflight,
                                         [kind |-> "transfer", src |-> staging,
                                          dst |-> dst, fence |-> "none"])
                   /\ pc' = "vertexCopyWait"
    /\ UNCHANGED <<auxVars, swapVars, uploaded, drained, descriptorSets>>
    /\ UNCHANGED <<isRunning, currentFrame, framebufferResized, inFlightFences,
                   modelQueue, importModelMutex, models, swapChain, storage,
                   destroyed, workerPc, acquireResult, presentResult, resizedAtPresent,
                   frameNo, callLog, destroyedAt, fenceWaits, popped>>

\* createVertexBuffer from the vkQueueWaitIdle of its copy to its return.
CreateVertexBuffer_Finish ==
    /\ pc = "vertexCopyWait"
    /\ QueueWaitIdle
    /\ LET staging == globalBuffers.vertexBuffer - 1
       IN  /\ uploadLog' = uploadLog \o uploadFinish(staging, globalBuffers.vertexBuffer)
           /\ destroyed' = destroyed \cup {staging}
    /\ uploaded' = [uploaded EXCEPT !.vertices =
                        Combine(MeshParts(storage), <<>>, <<>>, <<>>).allVertices]
    /\ pc' = "indexUpload"
    /\ UNCHANGED <<auxVars, swapVars, meshPartOffsets, drained, descriptorSets>>
    /\ UNCHANGED <<isRunning, currentFrame, framebufferResized, inFlightFences,
                   globalBuffers, frames, modelQueue, importModelMutex, models,
                   swapChain, storage, inflight, nextHandle, workerPc, acquireResult,
                   presentResult, resizedAtPresent, frameNo, callLog, retiredAt,
                   destroyedAt, fenceWaits, popped>>

\* Line 247: createIndexBuffer up to the submit of its copy.
CreateIndexBuffer_Submit ==
    /\ pc = "indexUpload"
    /\ LET combined == Combine(MeshParts(storage), <<>>, <<>>, <<>>)
           size == bufferSize(combined.allIndices)
           old == globalBuffers.indexBuffer
           staging == nextHandle
           dst == nextHandle + 1
       IN  /\ frames' = [frames EXCEPT ![currentFrame] = Retire(@, old)]
           /\ retiredAt' = [h \in Handles |->
                              IF h = old THEN frameNo ELSE retiredAt[h]]
           /\ uploadLog' = uploadLog \o uploadSubmit(size, staging, dst)
           /\ IF createBuffer(size) = <<"ASSERT">>
              THEN /\ pc' = "aborted"
                   /\ UNCHANGED <<globalBuffers, nextHandle, inflight>>
              ELSE /\ globalBuffers' = [globalBuffers EXCEPT !.indexBuffer = dst]
                   /\ nextHandle' = nextHandle + 2
                   /\ inflight' = Append(inflight,
                                         [kind |-> "transfer", src |-> staging,
                                          dst |-> dst, fence |-> "none"])
                   /\ pc' = "indexCopyWait"
    /\ UNCHANGED <<auxVars, swapVars, meshPartOffsets, uploaded, drained,
                   descriptorSets>>
    /\ UNCHANGED <<isRunning, currentFrame, framebufferResized, inFlightFences,
                   modelQueue, importModelMutex, models, swapChain, storage,
                   destroyed, workerPc, acquireResult, presentResult, resizedAtPresent,
                   frameNo, callLog, destroyedAt, fenceWaits, popped>>

\* createDescriptorSets (lines 1877-1935) for every mesh of the storage
\* (lines 252-255): MAX_FRAMES_IN_FLIGHT new sets for every part; the sets
\* the part had before are not freed.
RECURSIVE createDescriptorSets(_, _)
createDescriptorSets(allocated, parts) ==
    IF parts = <<>> THEN allocated
    ELSE createDescriptorSets(allocated + MAX_FRAMES_IN_FLIGHT, Tail(parts))

\* createIndexBuffer from the vkQueueWaitIdle of its copy to its return, then
\* lines 249-255: the totals and the descriptor sets.
CreateIndexBuffer_Finish ==
    /\ pc = "indexCopyWait"
    /\ QueueWaitIdle
    /\ LET staging == globalBuffers.indexBuffer - 1
           combined == Combine(MeshParts(storage), <<>>, <<>>, <<>>)
       IN  /\ uploadLog' = uploadLog \o uploadFinish(staging, globalBuffers.indexBuffer)
           /\ destroyed' = destroyed \cup {staging}
           /\ uploaded' = [uploaded EXCEPT !.indices = combined.allIndices]
           /\ globalBuffers' = [globalBuffers EXCEPT
                                    !.totalVertices = Len(combined.allVertices),
                                    !.totalIndices = Len(combined.allIndices)]
           /\ descriptorSets' = createDescriptorSets(descriptorSets, MeshParts(storage))
    /\ pc' = "submit"
    /\ UNCHANGED <<auxVars, swapVars, meshPartOffsets, drained>>
    /\ UNCHANGED <<isRunning, currentFrame, framebufferResized, inFlightFences,
                   frames, modelQueue, importModelMutex, models, swapChain, storage,
                   inflight, nextHandle, workerPc, acquireResult, presentResult,
                   resizedAtPresent, frameNo, callLog, retiredAt, destroyedAt,
                   fenceWaits, popped>>

\* ------------------------------------------------------------ recordCommandBuffer
\* The fields of part p of mesh m as the last rebuild left them in the mesh
\* object, which the storage and the render instances share; a part no
\* rebuild has reached has the offsets it was imported with.
MeshPart(m, p) ==
    LET given == {i \in 1 .. Len(meshPartOffsets) :
                     meshPartOffsets[i].mesh = m /\ meshPartOffsets[i].part = p}
    IN  IF given = {}
        THEN [mesh |-> m, part |-> p, rebuilt |-> FALSE, indexCount |-> Len(Indices(m, p)),
              indexOffset |-> 0, vertexOffset |-> 0]
        ELSE LET i == CHOOSE i \in given : \A j \in given : j <= i
             IN  [mesh |-> m, part |-> p, rebuilt |-> TRUE,
                  indexCount |-> Len(Indices(m, p)),
                  indexOffset |-> meshPartOffsets[i].indexOffset,
                  vertexOffset |-> meshPartOffsets[i].vertexOffset]

\* Lines 1225-1241: for every render instance and every part of its mesh,
\* bind the descriptor set of the part for the slot and draw the part.
RECURSIVE recordDraws_noBind(_, _)
recordDraws_noBind(parts, slot) ==
    IF parts = <<>> THEN <<>>
    ELSE LET meshPart == MeshPart(Head(parts)[1], Head(parts)[2])
         IN  << [cmd |-> "vkCmdDrawIndexed", mesh |-> meshPart.mesh,
                 part |-> meshPart.part, indexCount |-> meshPart.indexCount,
                 indexOffset |-> meshPart.indexOffset,
                 vertexOffset |-> meshPart.vertexOffset, rebuilt |-> meshPart.rebuilt] >>
             \o recordDraws_noBind(Tail(parts), slot)
RECURSIVE recordDraws(_, _)
recordDraws(parts, slot) ==
    IF parts = <<>> THEN <<>>
    ELSE LET meshPart == MeshPart(Head(parts)[1], Head(parts)[2])
         IN  << [cmd |-> "vkCmdBindDescriptorSets", mesh |-> meshPart.mesh,
                 part |-> meshPart.part, slot |-> slot],
                [cmd |-> "vkCmdDrawIndexed", mesh |-> meshPart.mesh,
                 part |-> meshPart.part, indexCount |-> meshPart.indexCount,
                 indexOffset |-> meshPart.indexOffset,
                 vertexOffset |-> meshPart.vertexOffset, rebuilt |-> meshPart.rebuilt] >>
             \o recordDraws(Tail(parts), slot)

\* The meshes of the render instances, in the order of the list.
ModelMeshes == [i \in 1 .. Len(models) |-> models[i].mesh]

\* recordCommandBuffer (lines 1182-1250): the commands recorded for a slot.
recordCommandBuffer(slot) ==
    << [cmd |-> "vkBeginCommandBuffer"],
       [cmd |-> "vkCmdBeginRenderPass", extent |-> swapChainDetails.extent],
       [cmd |-> "vkCmdBindPipeline"],
       [cmd |-> "vkCmdSetViewport", extent |-> swapChainDetails.extent],
       [cmd |-> "vkCmdSetScissor", extent |-> swapChainDetails.extent],
       [cmd |-> "vkCmdBindVertexBuffers", buffer |-> globalBuffers.vertexBuffer],
       [cmd |-> "vkCmdBindIndexBuffer", buffer |-> globalBuffers.indexBuffer] >>
    \o recordDraws(MeshParts(ModelMeshes), slot)
    \o << [cmd |-> "renderDrawData"],
          [cmd |-> "vkCmdEndRenderPass"],
          [cmd |-> "vkEndCommandBuffer"] >>

\* ------------------------------------------------------------ submit and present
\* Lines 145-167: reset the fence, reset and record the command buffer,
\* submit it with the slot's semaphores and fence.
SubmitFrame ==
    /\ pc = "submit"
    /\ inFlightFences' = [inFlightFences EXCEPT ![currentFrame] = FALSE]
    /\ fenceWaits' = [fenceWaits EXCEPT ![currentFrame] = <<>>]
    /\ inflight' = Append(inflight,
                          [kind |-> "draw",
                           slot |-> currentFrame,
                           waitSemaphore |-> currentFrame,
                           signalSemaphore |-> currentFrame,
                           fence |-> currentFrame,
                           vertexBuffer |-> globalBuffers.vertexBuffer,
                           indexBuffer |-> globalBuffers.indexBuffer,
                           framebuffers |-> SeqToSet(swapChainFramebuffers),
                           extent |-> swapChainDetails.extent,
                           totalVertices |-> globalBuffers.totalVertices,
                           totalIndices |-> globalBuffers.totalIndices,
                           commands |-> recordCommandBuffer(currentFrame)])
    /\ callLog' = Log(<< <<"vkResetFences", currentFrame>>,
                         <<"resetCommandBuffer", currentFrame>>,
                         <<"recordCommandBuffer", currentFrame>>,
                         <<"threadSafeQueueSubmit", currentFrame>> >>)
    /\ pc' = "present"
    /\ UNCHANGED <<auxVars, swapVars, meshVars>>
    /\ UNCHANGED <<isRunning, currentFrame, framebufferResized, globalBuffers, frames,
                   modelQueue, importModelMutex, models, swapChain, storage, destroyed,
                   nextHandle, workerPc, acquireResult, presentResult, resizedAtPresent,
                   frameNo, retiredAt, destroyedAt, popped>>

\* Lines 185-193: where drawFrame continues after present.
postPresent_noResizeCheck(result, resized) ==
    IF result \in {"VK_ERROR_OUT_OF_DATE_KHR", "VK_SUBOPTIMAL_KHR"} THEN "recreatePresent"
    ELSE IF result = "VK_SUCCESS" THEN "idle"
    ELSE "aborted"
postPresent_failureFirst(result, resized) ==
    IF result \notin {"VK_SUCCESS", "VK_ERROR_OUT_OF_DATE_KHR", "VK_SUBOPTIMAL_KHR"}
    THEN "aborted"
    ELSE IF result # "VK_SUCCESS" \/ resized THEN "recreatePresent"
    ELSE "idle"
postPresent(result, resized) ==
    IF result \in {"VK_ERROR_OUT_OF_DATE_KHR", "VK_SUBOPTIMAL_KHR"} \/ resized
    THEN "recreatePresent"
    ELSE IF result = "VK_SUCCESS" THEN "idle"
    ELSE "aborted"

\* Line 187: framebufferResized after the post-present check.
resizedAfterPresent_kept(result, resized) == resized
resizedAfterPresent(result, resized) ==
    IF postPresent(result, resized) = "recreatePresent" THEN FALSE ELSE resized

\* Lines 183-193: present waiting on render-finished, then the staleness
\* and resize check.
PresentFrame ==
    /\ pc = "present"
    /\ \E result \in PresentResults :
        /\ presentResult' = result
        /\ pc' = postPresent(result, framebufferResized)
        /\ framebufferResized' = resizedAfterPresent(result, framebufferResized)
    /\ resizedAtPresent' = framebufferResized
    /\ callLog' = Log(<< <<"threadSafePresent", currentFrame>> >>)
    /\ UNCHANGED <<auxVars, swapVars, meshVars>>
    /\ UNCHANGED <<isRunning, currentFrame, inFlightFences, globalBuffers, frames,
                   modelQueue, importModelMutex, models, swapChain, storage, inflight,
                   destroyed, nextHandle, workerPc, acquireResult, frameNo, retiredAt,
                   destroyedAt, fenceWaits, popped>>

\* ------------------------------------------------------------ environment
\* The GPU finishes the oldest submission of the graphics queue and signals
\* its fence (a one-time copy is submitted with no fence).
GpuComplete ==
    /\ inflight # <<>>
    /\ inFlightFences' = IF Head(inflight).kind = "draw"
                         THEN [inFlightFences EXCEPT ![Head(inflight).fence] = TRUE]
                         ELSE inFlightFences
    /\ inflight' = Tail(inflight)
    /\ UNCHANGED <<auxVars, swapVars, meshVars>>
    /\ UNCHANGED <<isRunning, currentFrame, framebufferResized, globalBuffers, frames,
                   modelQueue, importModelMutex, models, swapChain, storage, destroyed,
                   nextHandle, pc, workerPc, acquireResult, presentResult,
                   resizedAtPresent, frameNo, callLog, retiredAt, destroyedAt,
                   fenceWaits, popped>>

\* onResize (lines 1979-1982), the EVENT_WINDOW_RESIZED handler.
OnResize ==
    /\ pc = "idle"
    /\ ~framebufferResized
    /\ framebufferResized' = TRUE
    /\ UNCHANGED <<auxVars, swapVars, meshVars>>
    /\ UNCHANGED <<isRunning, currentFrame, inFlightFences, globalBuffers, frames,
                   modelQueue, importModelMutex, models, swapChain, storage, inflight,
                   destroyed, nextHandle, pc, workerPc, acquireResult, presentResult,
                   resizedAtPresent, frameNo, callLog, retiredAt, destroyedAt,
                   fenceWaits, popped>>

\* The window is resized, minimized or restored, or the surface starts to
\* report other capabilities.
SurfaceChange ==
    /\ pc # "aborted"
    /\ \E s \in FrameLoopSurfaces \ {surface} : surface' = s
    /\ UNCHANGED <<swapChainDetails, swapChainImageViews, swapChainFramebuffers>>
    /\ UNCHANGED <<auxVars, meshVars>>
    /\ UNCHANGED <<isRunning, currentFrame, framebufferResized, inFlightFences,
                   globalBuffers, frames, modelQueue, importModelMutex, models,
                   swapChain, storage, inflight, destroyed, nextHandle, pc, workerPc,
                   acquireResult, presentResult, resizedAtPresent, frameNo, callLog,
                   retiredAt, destroyedAt, fenceWaits, popped>>

\* The EVENT_APPLICATION_QUIT handler (lines 32-35).
OnQuit ==
    /\ pc = "idle"
    /\ isRunning
    /\ isRunning' = FALSE
    /\ UNCHANGED <<auxVars, swapVars, meshVars>>
    /\ UNCHANGED <<currentFrame, framebufferResized, inFlightFences, globalBuffers,
                   frames, modelQueue, importModelMutex, models, swapChain, storage,
                   inflight, destroyed, nextHandle, pc, workerPc, acquireResult,
                   presentResult, resizedAtPresent, frameNo, callLog, retiredAt,
                   destroyedAt, fenceWaits, popped>>

\* ------------------------------------------------------------ shutdown
\* clean (lines 67-122): the destroy calls, in order.
clean(old) ==
    << <<"destroyDepthResources", old>>, <<"destroyColorResources", old>>,
       <<"destroyFramebuffers", old>>, <<"destroyImageViews", old>>,
       <<"vkDestroySwapchainKHR", old>>,
       <<"vkDestroyPipeline", old>>, <<"vkDestroyPipelineLayout", old>>,
       <<"vkDestroyRenderPass", old>> >>
    \o [i \in 1 .. MAX_FRAMES_IN_FLIGHT |-> <<"vkDestroyBuffer(ubo)", i - 1>>]
    \o << <<"vkDestroyDescriptorPool", old>>, <<"destroyTextures", old>>,
          <<"vkDestroyDescriptorSetLayout", old>>,
          <<"vkDestroyBuffer", globalBuffers.indexBuffer>>,
          <<"vkDestroyBuffer", globalBuffers.vertexBuffer>> >>
    \o [i \in 1 .. MAX_FRAMES_IN_FLIGHT |-> <<"destroySyncObjects", i - 1>>]
    \o << <<"vkDestroyCommandPool", old>>, <<"vkDestroyDevice", old>>,
          <<"vkDestroySurfaceKHR", old>>, <<"vkDestroyInstance", old>> >>

\* The engine leaves its main loop once isRunning is false and calls
\* deviceWaitIdle (lines 197-200) before it tears the renderer down.
Shutdown_DeviceWaitIdle ==
    /\ pc = "idle"
    /\ ~isRunning
    /\ deviceWaitIdle
    /\ pc' = "shutdown"
    /\ UNCHANGED <<auxVars, swapVars, meshVars>>
    /\ UNCHANGED <<isRunning, currentFrame, framebufferResized, inFlightFences,
                   globalBuffers, frames, modelQueue, importModelMutex, models,
                   swapChain, storage, inflight, destroyed, nextHandle, workerPc,
                   acquireResult, presentResult, resizedAtPresent, frameNo, callLog,
                   retiredAt, destroyedAt, fenceWaits, popped>>

\* clean (lines 67-122) destroys what the renderer owns, the combined
\* buffers included.
Clean ==
    /\ pc = "shutdown"
    /\ callLog' = clean(swapChain)
    /\ destroyed' = destroyed \cup ({globalBuffers.indexBuffer, globalBuffers.vertexBuffer}
                                      \ {VK_NULL_HANDLE})
    /\ pc' = "cleaned"
    /\ UNCHANGED <<auxVars, swapVars, meshVars>>
    /\ UNCHANGED <<isRunning, currentFrame, framebufferResized, inFlightFences,
                   globalBuffers, frames, modelQueue, importModelMutex, models,
                   swapChain, storage, inflight, nextHandle, workerPc, acquireResult,
                   presentResult, resizedAtPresent, frameNo, retiredAt, destroyedAt,
                   fenceWaits, popped>>

\* ------------------------------------------------------------ importMesh
\* Lines 204-205: the file is parsed, then the lock_guard takes the mutex.
ImportMesh_Lock(w) ==
    /\ workerPc[w] = "parse"
    /\ importModelMutex = {}
    /\ importModelMutex' = {w}
    /\ workerPc' = [workerPc EXCEPT ![w] = "locked"]
    /\ UNCHANGED <<modelQueue>>
    /\ UNCHANGED rendererVars
    /\ UNCHANGED inflight

\* Lines 206-207: emplace, then the lock_guard releases the mutex.
ImportMesh_Push(w) ==
    /\ workerPc[w] = "locked"
    /\ modelQueue' = Append(modelQueue, w)
    /\ importModelMutex' = importModelMutex \ {w}
    /\ workerPc' = [workerPc EXCEPT ![w] = "done"]
    /\ UNCHANGED rendererVars
    /\ UNCHANGED inflight

\* ------------------------------------------------------------ supported formats
\* Format feature bits and the depth formats findDepthFormat asks for.
VK_FORMAT_FEATURE_SAMPLED_IMAGE_FILTER_LINEAR_BIT == 4096
VK_FORMAT_FEATURE_DEPTH_STENCIL_ATTACHMENT_BIT == 512
DepthFormats ==
    <<"VK_FORMAT_D32_SFLOAT", "VK_FORMAT_D32_SFLOAT_S8_UINT", "VK_FORMAT_D24_UNORM_S8_UINT">>
VkImageTilings == {"VK_IMAGE_TILING_LINEAR", "VK_IMAGE_TILING_OPTIMAL"}

\* What vkGetPhysicalDeviceFormatProperties can report for one format, and
\* for every depth format of a device.
VkFormatProperties ==
    {[linearTilingFeatures |-> 4608, optimalTilingFeatures |-> 4096],
     [linearTilingFeatures |-> 512, optimalTilingFeatures |-> 4608],
     [linearTilingFeatures |-> 4096, optimalTilingFeatures |-> 512]}
DeviceFormatProperties == [{DepthFormats[i] : i \in 1 .. 3} -> VkFormatProperties]
FormatFeatureFlags ==
    {VK_FORMAT_FEATURE_DEPTH_STENCIL_ATTACHMENT_BIT,
     VK_FORMAT_FEATURE_DEPTH_STENCIL_ATTACHMENT_BIT + VK_FORMAT_FEATURE_SAMPLED_IMAGE_FILTER_LINEAR_BIT}
CandidateFormats ==
    UNION {[1 .. n -> {DepthFormats[i] : i \in 1 .. 3}] : n \in 0 .. MaxCandidates}

\* The condition of the loop body of findSupportedFormat on one format.
formatMatches(props, tiling, features) ==
    \/ /\ tiling = "VK_IMAGE_TILING_LINEAR"
       /\ BitAnd(props.linearTilingFeatures, features) = features
    \/ /\ tiling = "VK_IMAGE_TILING_OPTIMAL"
       /\ BitAnd(props.optimalTilingFeatures, features) = features

\* The loop of findSupportedFormat from candidate i on; supportedFormat is
\* the optional's value so far, "nullopt" while it is empty.
RECURSIVE findSupportedFormat_loop_break(_, _, _, _, _, _)
findSupportedFormat_loop_break(i, candidates, tiling, features, device, supportedFormat) ==
    IF i > Len(candidates) THEN supportedFormat
    ELSE IF formatMatches(device[candidates[i]], tiling, features)
         THEN candidates[i]
         ELSE findSupportedFormat_loop_break(i + 1, candidates, tiling, features, device,
                                             supportedFormat)
RECURSIVE findSupportedFormat_loop(_, _, _, _, _, _)
findSupportedFormat_loop(i, candidates, tiling, features, device, supportedFormat) ==
    IF i > Len(candidates) THEN supportedFormat
    ELSE findSupportedFormat_loop(i + 1, candidates, tiling, features, device,
             IF formatMatches(device[candidates[i]], tiling, features)
             THEN candidates[i]
             ELSE supportedFormat)

findSupportedFormat(candidates, tiling, features, device) ==
    LET supportedFormat ==
            findSupportedFormat_loop(1, candidates, tiling, features, device, "nullopt")
    IN  IF ~ASSERT(supportedFormat # "nullopt")
        THEN [status |-> "aborted", format |-> "nullopt"]
        ELSE [status |-> "returned", format |-> supportedFormat]

findDepthFormat(device) ==
    findSupportedFormat(DepthFormats, "VK_IMAGE_TILING_OPTIMAL",
                        VK_FORMAT_FEATURE_DEPTH_STENCIL_ATTACHMENT_BIT, device)

\* ------------------------------------------------------------ slot indices
\* The slot indices a caller may pass, the valid ones and their neighbours
\* on both sides.
SlotIndices == -2 .. (MAX_FRAMES_IN_FLIGHT + 1)

\* static_cast<size_t>(value) of an int: a negative value wraps to
\* 2^64 + value, kept as <<1, value>>; any other value is <<0, value>>.
static_cast_size_t(value) == IF value < 0 THEN <<1, value>> ELSE <<0, value>>

\* a < size for a size_t a and the size of a container.
SizeLess(a, size) == a[1] = 0 /\ a[2] < size

\* The condition the renderer asserts on a slot index:
\* static_cast<size_t>(index) < container.size() && index >= 0.
indexInRange_signedOnly(index, size) == index < size

indexInRange(index, size) ==
    SizeLess(static_cast_size_t(index), size) /\ index >= 0

\* The condition SwapChainManager::acquireNextImage throws on.
indexOutOfRange(index, size) ==
    ~SizeLess(static_cast_size_t(index), size) \/ index < 0

\* getCommandBuffer(bufferId): the element of commandBuffers it reads.
getCommandBuffer(bufferId) ==
    IF ~ASSERT(indexInRange(bufferId, MAX_FRAMES_IN_FLIGHT))
    THEN [status |-> "aborted", calls |-> <<>>]
    ELSE [status |-> "returned", calls |-> << <<"commandBuffers", bufferId>> >>]

\* resetCommandBuffer(bufferId), vkResetCommandBuffer reporting vkResult.
resetCommandBuffer(bufferId, vkResult) ==
    IF ~ASSERT(indexInRange(bufferId, MAX_FRAMES_IN_FLIGHT))
    THEN [status |-> "aborted", calls |-> <<>>]
    ELSE [status |-> IF ASSERT(vkResult = "VK_SUCCESS") THEN "returned" ELSE "aborted",
          calls |-> << <<"vkResetCommandBuffer", bufferId>> >>]

\* VulkanRenderer::acquireNextImage with the slot index in frame,
\* vkAcquireNextImageKHR reporting result.
VulkanRenderer_acquireNextImage(frame, result) ==
    IF ~ASSERT(indexInRange(frame, MAX_FRAMES_IN_FLIGHT))
    THEN [status |-> "aborted", calls |-> <<>>]
    ELSE LET acquire == <<"vkAcquireNextImageKHR", frame>>
         IN  CASE acquireNextImage(result) = "recreateAcquire" ->
                    [status |-> "nullopt",
                     calls |-> <<acquire, <<"recreateSwapChain", -1>> >>]
               [] acquireNextImage(result) = "aborted" ->
                    [status |-> "aborted", calls |-> <<acquire>>]
               [] OTHER -> [status |-> "returned", calls |-> <<acquire>>]

\* SwapChainManager::acquireNextImage(currentFrame).
SwapChainManager_acquireNextImage(frame, result) ==
    IF indexOutOfRange(frame, MAX_FRAMES_IN_FLIGHT)
    THEN [status |-> "out_of_range", calls |-> <<>>]
    ELSE LET acquire == <<"vkAcquireNextImageKHR", frame>>
         IN  IF result = "VK_ERROR_OUT_OF_DATE_KHR"
             THEN [status |-> "nullopt",
                   calls |-> <<acquire, <<"recreate", -1>> >>]
             ELSE IF result # "VK_SUCCESS" /\ result # "VK_SUBOPTIMAL_KHR"
             THEN [status |-> "runtime_error", calls |-> <<acquire>>]
             ELSE [status |-> "returned", calls |-> <<acquire>>]

\* ------------------------------------------------------------ single calls
\* chooseSwapExtent called with a surface's capabilities and a window size.
Call_chooseSwapExtent ==
    /\ fnCall.fn = "none"
    /\ \E ce \in CurrentExtents, loW, loH, hiW, hiH \in ExtentValues,
          w, h \in WindowSizes :
        /\ loW <= hiW /\ loH <= hiH
        /\ LET capabilities == [currentExtent |-> ce,
                                minImageExtent |-> Extent32(loW, loH),
                                maxImageExtent |-> Extent32(hiW, hiH)]
           IN  /\ fnCall' = [fn |-> "chooseSwapExtent", capabilities |-> capabilities,
                             minImageExtent |-> Extent(loW, loH),
                             maxImageExtent |-> Extent(hiW, hiH),
                             windowInfo |-> Extent(w, h)]
               /\ fnResult' = chooseSwapExtent(capabilities, Extent(w, h))
    /\ UNCHANGED <<frameVars, queueVars, poolVars>>

Call_SwapChainManager_chooseSwapExtent ==
    /\ fnCall.fn = "none"
    /\ \E ce \in CurrentExtents, loW, loH, hiW, hiH \in ExtentValues,
          w, h \in WindowSizes :
        /\ loW <= hiW /\ loH <= hiH
        /\ LET capabilities == [currentExtent |-> ce,
                                minImageExtent |-> Extent32(loW, loH),
                                maxImageExtent |-> Extent32(hiW, hiH)]
           IN  /\ fnCall' = [fn |-> "SwapChainManager::chooseSwapExtent",
                             capabilities |-> capabilities,
                             minImageExtent |-> Extent(loW, loH),
                             maxImageExtent |-> Extent(hiW, hiH),
                             windowInfo |-> Extent(w, h)]
               /\ fnResult' = SwapChainManager_chooseSwapExtent(capabilities, Extent(w, h))
    /\ UNCHANGED <<frameVars, queueVars, poolVars>>

\* The image count computed for a pair (minImageCount, maxImageCount).
Call_imageCount ==
    /\ fnCall.fn = "none"
    /\ \E mn \in ImageCounts, mx \in ImageCounts :
        /\ fnCall' = [fn |-> "imageCount", minImageCount |-> mn, maxImageCount |-> mx]
        /\ fnResult' = imageCount(mn, mx)
    /\ UNCHANGED <<frameVars, queueVars, poolVars>>

Call_SwapChainManager_imageCount ==
    /\ fnCall.fn = "none"
    /\ \E mn \in ImageCounts, mx \in ImageCounts :
        /\ fnCall' = [fn |-> "SwapChainManager::imageCount",
                      minImageCount |-> mn, maxImageCount |-> mx]
        /\ fnResult' = SwapChainManager_imageCount(mn, mx)
    /\ UNCHANGED <<frameVars, queueVars, poolVars>>

\* createSwapChain called for a surface and a window.
Call_createSwapChain ==
    /\ fnCall.fn = "none"
    /\ \E capabilities \in SurfaceCapabilities, windowInfo \in WindowInfos,
          vkResult \in vkCreateSwapchainKHR :
        /\ fnCall' = [fn |-> "createSwapChain", capabilities |-> capabilities,
                      windowInfo |-> windowInfo,
                      extent |-> chooseSwapExtent(capabilities, windowInfo)]
        /\ fnResult' = createSwapChain(capabilities, windowInfo, vkResult)
    /\ UNCHANGED <<frameVars, queueVars, poolVars>>

Call_SwapChainManager_init ==
    /\ fnCall.fn = "none"
    /\ \E capabilities \in SurfaceCapabilities, windowInfo \in WindowInfos,
          vkResult \in vkCreateSwapchainKHR :
        /\ fnCall' = [fn |-> "SwapChainManager::init", capabilities |-> capabilities,
                      windowInfo |-> windowInfo,
                      extent |-> SwapChainManager_chooseSwapExtent(capabilities, windowInfo)]
        /\ fnResult' = SwapChainManager_init(capabilities, windowInfo, vkResult)
    /\ UNCHANGED <<frameVars, queueVars, poolVars>>

\* createBuffer called with a size, createImage with a width and a height.
Call_createBuffer ==
    /\ fnCall.fn = "none"
    /\ \E size \in 0 .. MaxExtent :
        /\ fnCall' = [fn |-> "createBuffer", size |-> size]
        /\ fnResult' = createBuffer(size)
    /\ UNCHANGED <<frameVars, queueVars, poolVars>>

Call_createImage ==
    /\ fnCall.fn = "none"
    /\ \E w \in ExtentValues, h \in ExtentValues :
        /\ fnCall' = [fn |-> "createImage", width |-> w, height |-> h]
        /\ fnResult' = createImage(ToUint32(w), ToUint32(h))
    /\ UNCHANGED <<frameVars, queueVars, poolVars>>

\* findMemoryType called for a device's memory types, a type filter and a
\* mask of requested properties.
Call_findMemoryType ==
    /\ fnCall.fn = "none"
    /\ \E memProperties \in MemoryProperties, typeFilter \in TypeFilters,
          properties \in PropertyFlags :
        /\ fnCall' = [fn |-> "findMemoryType", memProperties |-> memProperties,
                      typeFilter |-> typeFilter, properties |-> properties]
        /\ fnResult' = findMemoryType(memProperties, typeFilter, properties)
    /\ UNCHANGED <<frameVars, queueVars, poolVars>>

\* createDevices called with the devices the instance enumerates; the result
\* of vkCreateDevice varies where the call reaches it.
Call_createDevices ==
    /\ fnCall.fn = "none"
    /\ \E devices \in EnumeratedDevices :
       \E vkResult \in IF pickAnySuitableDevice(devices).status = "returned"
                        THEN vkCreateDevice
                        ELSE {"VK_SUCCESS"} :
        /\ fnCall' = [fn |-> "createDevices", devices |-> devices,
                      vkResult |-> vkResult]
        /\ fnResult' = createDevices(devices, vkResult)
    /\ UNCHANGED <<frameVars, queueVars, poolVars>>

\* Either chooseSwapSurfaceFormat called with a list of formats.
Call_chooseSwapSurfaceFormat ==
    /\ fnCall.fn = "none"
    /\ \E availableFormats \in AvailableFormats :
        /\ fnCall' = [fn |-> "chooseSwapSurfaceFormat",
                      availableFormats |-> availableFormats]
        /\ IF availableFormats = <<>>
           THEN fnResult' \in EmptyFormatsOutcomes
           ELSE fnResult' = chooseSwapSurfaceFormat(availableFormats)
    /\ UNCHANGED <<frameVars, queueVars, poolVars>>

Call_SwapChainManager_chooseSwapSurfaceFormat ==
    /\ fnCall.fn = "none"
    /\ \E availableFormats \in AvailableFormats :
        /\ fnCall' = [fn |-> "SwapChainManager::chooseSwapSurfaceFormat",
                      availableFormats |-> availableFormats]
        /\ IF availableFormats = <<>>
           THEN fnResult' \in EmptyFormatsOutcomes
           ELSE fnResult' = SwapChainManager_chooseSwapSurfaceFormat(availableFormats)
    /\ UNCHANGED <<frameVars, queueVars, poolVars>>

\* generateMipmaps called for a texture with maxMipLevels levels.
Call_generateMipmaps ==
    /\ fnCall.fn = "none"
    /\ \E maxMipLevels \in 1 .. MaxMipLevels, linearBlit \in BOOLEAN,
          texWidth \in TextureSizes, texHeight \in TextureSizes :
        /\ fnCall' = [fn |-> "generateMipmaps", maxMipLevels |-> maxMipLevels,
                      linearBlit |-> linearBlit, texWidth |-> texWidth,
                      texHeight |-> texHeight]
        /\ fnResult' = generateMipmaps(maxMipLevels, linearBlit, texWidth, texHeight)
    /\ UNCHANGED <<frameVars, queueVars, poolVars>>

\* createVertexBuffer and createIndexBuffer called with a list of elements,
\* the empty list included.
Call_createVertexBuffer ==
    /\ fnCall.fn = "none"
    /\ \E count \in 0 .. MaxExtent :
        /\ fnCall' = [fn |-> "createVertexBuffer", count |-> count]
        /\ fnResult' = createVertexBuffer([k \in 1 .. count |-> <<1, count, k>>], 1, 2)
    /\ UNCHANGED <<frameVars, queueVars, poolVars>>

Call_createIndexBuffer ==
    /\ fnCall.fn = "none"
    /\ \E count \in 0 .. MaxExtent :
        /\ fnCall' = [fn |-> "createIndexBuffer", count |-> count]
        /\ fnResult' = createIndexBuffer([k \in 1 .. count |-> k - 1], 1, 2)
    /\ UNCHANGED <<frameVars, queueVars, poolVars>>

\* getCommandBuffer, resetCommandBuffer and the two acquireNextImage called
\* with any slot index, in range or not.
Call_getCommandBuffer ==
    /\ fnCall.fn = "none"
    /\ \E bufferId \in SlotIndices :
        /\ fnCall' = [fn |-> "getCommandBuffer", index |-> bufferId]
        /\ fnResult' = getCommandBuffer(bufferId)
    /\ UNCHANGED <<frameVars, queueVars, poolVars>>

Call_resetCommandBuffer ==
    /\ fnCall.fn = "none"
    /\ \E bufferId \in SlotIndices, vkResult \in {"VK_SUCCESS", "VK_ERROR_DEVICE_LOST"} :
        /\ fnCall' = [fn |-> "resetCommandBuffer", index |-> bufferId,
                      vkResult |-> vkResult]
        /\ fnResult' = resetCommandBuffer(bufferId, vkResult)
    /\ UNCHANGED <<frameVars, queueVars, poolVars>>

Call_acquireNextImage ==
    /\ fnCall.fn = "none"
    /\ \E frame \in SlotIndices, result \in AcquireResults :
        /\ fnCall' = [fn |-> "acquireNextImage", index |-> frame, vkResult |-> result]
        /\ fnResult' = VulkanRenderer_acquireNextImage(frame, result)
    /\ UNCHANGED <<frameVars, queueVars, poolVars>>

Call_SwapChainManager_acquireNextImage ==
    /\ fnCall.fn = "none"
    /\ \E frame \in SlotIndices, result \in AcquireResults :
        /\ fnCall' = [fn |-> "SwapChainManager::acquireNextImage", index |-> frame,
                      vkResult |-> result]
        /\ fnResult' = SwapChainManager_acquireNextImage(frame, result)
    /\ UNCHANGED <<frameVars, queueVars, poolVars>>

\* findSupportedFormat called with a candidate list, a tiling and a feature
\* mask on a device; findDepthFormat called on a device.
Call_findSupportedFormat ==
    /\ fnCall.fn = "none"
    /\ \E candidates \in CandidateFormats, tiling \in VkImageTilings,
          features \in FormatFeatureFlags, device \in DeviceFormatProperties :
        /\ fnCall' = [fn |-> "findSupportedFormat", candidates |-> candidates,
                      tiling |-> tiling, features |-> features, device |-> device]
        /\ fnResult' = findSupportedFormat(candidates, tiling, features, device)
    /\ UNCHANGED <<frameVars, queueVars, poolVars>>

Call_findDepthFormat ==
    /\ fnCall.fn = "none"
    /\ \E device \in DeviceFormatProperties :
        /\ fnCall' = [fn |-> "findDepthFormat", device |-> device]
        /\ fnResult' = findDepthFormat(device)
    /\ UNCHANGED <<frameVars, queueVars, poolVars>>

\* ------------------------------------------------------------ queue operations
\* The threads that use the graphics/present queue: the rendering thread
\* (one-time copies of a rebuild, then the submit and the present of the
\* frame) and the import tasks (one-time commands of their own).
Threads == Workers \cup {RenderThread}

\* Where a thread is when no one-time command of its own is under way.
Outside(t) == IF t = RenderThread THEN "processLoadedMeshes" ELSE "importing"

\* threadSafeQueueSubmit and threadSafePresent take the queue mutex for the
\* duration of vkQueueSubmit / vkQueuePresentKHR: a thread enters when no
\* thread owns the mutex.
threadSafeQueueSubmit(mutex) == mutex = {}
threadSafePresent(mutex) == mutex = {}

\* std::lock_guard lock(graphicsQueueMutex) at line 1316.
lock_guard_absent(mutex) == TRUE
lock_guard(mutex) == mutex = {}

\* beginSingleTimeCommands (lines 1285-1303): a command buffer of the
\* thread's own pool is allocated and begun.
BeginSingleTimeCommands(t) ==
    /\ queuePc[t] = Outside(t)
    /\ queuePc' = [queuePc EXCEPT ![t] = "recording"]
    /\ UNCHANGED <<graphicsQueueMutex, callVars, frameVars, poolVars>>

\* endSingleTimeCommands, line 1307: vkEndCommandBuffer.
EndSingleTimeCommands_End(t) ==
    /\ queuePc[t] = "recording"
    /\ queuePc' = [queuePc EXCEPT ![t] = "oneTimeSubmit"]
    /\ UNCHANGED <<graphicsQueueMutex, callVars, frameVars, poolVars>>

\* Line 1314: threadSafeQueueSubmit is entered ...
EndSingleTimeCommands_Submit(t) ==
    /\ queuePc[t] = "oneTimeSubmit"
    /\ threadSafeQueueSubmit(graphicsQueueMutex)
    /\ graphicsQueueMutex' = graphicsQueueMutex \cup {t}
    /\ queuePc' = [queuePc EXCEPT ![t] = "inOneTimeSubmit"]
    /\ UNCHANGED <<callVars, frameVars, poolVars>>

\* ... and returns.
EndSingleTimeCommands_Submitted(t) ==
    /\ queuePc[t] = "inOneTimeSubmit"
    /\ graphicsQueueMutex' = graphicsQueueMutex \ {t}
    /\ queuePc' = [queuePc EXCEPT ![t] = "waitIdle"]
    /\ UNCHANGED <<callVars, frameVars, poolVars>>

\* Lines 1315-1317: the lock_guard is taken and vkQueueWaitIdle entered ...
EndSingleTimeCommands_WaitIdle(t) ==
    /\ queuePc[t] = "waitIdle"
    /\ lock_guard(graphicsQueueMutex)
    /\ graphicsQueueMutex' = graphicsQueueMutex \cup {t}
    /\ queuePc' = [queuePc EXCEPT ![t] = "inWaitIdle"]
    /\ UNCHANGED <<callVars, frameVars, poolVars>>

\* ... and lines 1318-1319: the wait returns, the lock_guard is released,
\* the command buffer freed.
EndSingleTimeCommands_Return(t) ==
    /\ queuePc[t] = "inWaitIdle"
    /\ graphicsQueueMutex' = graphicsQueueMutex \ {t}
    /\ queuePc' = [queuePc EXCEPT ![t] = Outside(t)]
    /\ UNCHANGED <<callVars, frameVars, poolVars>>

\* drawFrame, line 167: threadSafeQueueSubmit of the frame is entered ...
DrawFrame_Submit ==
    /\ queuePc[RenderThread] = "processLoadedMeshes"
    /\ threadSafeQueueSubmit(graphicsQueueMutex)
    /\ graphicsQueueMutex' = graphicsQueueMutex \cup {RenderThread}
    /\ queuePc' = [queuePc EXCEPT ![RenderThread] = "inFrameSubmit"]
    /\ UNCHANGED <<callVars, frameVars, poolVars>>

\* ... and returns.
DrawFrame_Submitted ==
    /\ queuePc[RenderThread] = "inFrameSubmit"
    /\ graphicsQueueMutex' = graphicsQueueMutex \ {RenderThread}
    /\ queuePc' = [queuePc EXCEPT ![RenderThread] = "present"]
    /\ UNCHANGED <<callVars, frameVars, poolVars>>

\* Line 183: threadSafePresent is entered ...
DrawFrame_Present ==
    /\ queuePc[RenderThread] = "present"
    /\ threadSafePresent(graphicsQueueMutex)
    /\ graphicsQueueMutex' = graphicsQueueMutex \cup {RenderThread}
    /\ queuePc' = [queuePc EXCEPT ![RenderThread] = "inPresent"]
    /\ UNCHANGED <<callVars, frameVars, poolVars>>

\* ... and returns; the next drawFrame call follows.
DrawFrame_Presented ==
    /\ queuePc[RenderThread] = "inPresent"
    /\ graphicsQueueMutex' = graphicsQueueMutex \ {RenderThread}
    /\ queuePc' = [queuePc EXCEPT ![RenderThread] = "processLoadedMeshes"]
    /\ UNCHANGED <<callVars, frameVars, poolVars>>

\* ------------------------------------------------------------ command pools
\* threadCommandPools maps a thread to its pool. NoEntry marks a thread
\* without an entry; VK_NULL_HANDLE is the value operator[] gives a new entry.
NoEntry == -1

\* The threads that call getCommandPool: the rendering thread (createCommandBuffer,
\* the one-time copies of a rebuild) and an import task.
PoolThreads == {1, RenderThread}

\* A thread is inside the map while it runs contains (line 1262), the
\* operator[] and the assignment of line 1264, or the operator[] of line 1267.
InsideMap(t) == poolPc[t] \in {"contains", "insert", "lookup"}
WritesMap(t) ==
    \/ poolPc[t] = "insert"
    \/ poolPc[t] = "lookup" /\ threadCommandPools[t] = NoEntry

\* Thread t is inside the map together with another thread and one of the
\* two modifies it: the map is not synchronised, so the outcome is not
\* defined.
Races(t) ==
    \E u \in PoolThreads \ {t} :
        InsideMap(t) /\ InsideMap(u) /\ (WritesMap(t) \/ WritesMap(u))

\* getCommandPool (lines 1259-1268) is entered: beginSingleTimeCommands,
\* endSingleTimeCommands and createCommandBuffer call it.
GetCommandPool_Enter(t) ==
    /\ poolPc[t] = "outside"
    /\ Len(poolsReturned[t]) < MaxPoolCalls
    /\ poolPc' = [poolPc EXCEPT ![t] = "contains"]
    /\ UNCHANGED <<threadCommandPools, newCommandPool, poolsReturned, nextPool,
                   callVars, queueVars, frameVars>>

\* threadCommandPools.contains(threadId), line 1262.
GetCommandPool_Contains(t) ==
    /\ poolPc[t] = "contains"
    /\ poolPc' = [poolPc EXCEPT ![t] =
                      IF threadCommandPools[t] = NoEntry THEN "create" ELSE "lookup"]
    /\ UNCHANGED <<threadCommandPools, newCommandPool, poolsReturned, nextPool,
                   callVars, queueVars, frameVars>>

\* createCommandPool (lines 1270-1283) makes a new pool.
CreateCommandPool(t) ==
    /\ poolPc[t] = "create"
    /\ newCommandPool' = [newCommandPool EXCEPT ![t] = nextPool]
    /\ nextPool' = nextPool + 1
    /\ poolPc' = [poolPc EXCEPT ![t] = "insert"]
    /\ UNCHANGED <<threadCommandPools, poolsReturned, callVars, queueVars, frameVars>>

\* threadCommandPools[threadId] = ..., line 1264, with no other thread
\* inside the map.
GetCommandPool_Insert(t) ==
    /\ poolPc[t] = "insert"
    /\ ~Races(t)
    /\ threadCommandPools' = [threadCommandPools EXCEPT ![t] = newCommandPool[t]]
    /\ poolPc' = [poolPc EXCEPT ![t] = "lookup"]
    /\ UNCHANGED <<newCommandPool, poolsReturned, nextPool, callVars, queueVars,
                   frameVars>>

\* The same insertion while another thread is inside the map: the entry is
\* stored, or it is lost, or the entry of another thread is lost.
GetCommandPool_InsertRaced(t) ==
    /\ poolPc[t] = "insert"
    /\ Races(t)
    /\ \/ threadCommandPools' = [threadCommandPools EXCEPT ![t] = newCommandPool[t]]
       \/ threadCommandPools' = threadCommandPools
       \/ \E u \in PoolThreads \ {t} :
              threadCommandPools' = [threadCommandPools EXCEPT ![t] = newCommandPool[t],
                                                               ![u] = NoEntry]
    /\ poolPc' = [poolPc EXCEPT ![t] = "lookup"]
    /\ UNCHANGED <<newCommandPool, poolsReturned, nextPool, callVars, queueVars,
                   frameVars>>

\* return threadCommandPools[threadId], line 1267: operator[] gives the
\* entry of the thread, and makes one holding VK_NULL_HANDLE when the thread
\* has none.
GetCommandPool_Return(t) ==
    /\ poolPc[t] = "lookup"
    /\ LET entry == IF threadCommandPools[t] = NoEntry THEN VK_NULL_HANDLE
                    ELSE threadCommandPools[t]
       IN  /\ threadCommandPools' = [threadCommandPools EXCEPT ![t] = entry]
           /\ poolsReturned' = [poolsReturned EXCEPT ![t] = Append(@, entry)]
    /\ poolPc' = [poolPc EXCEPT ![t] = "outside"]
    /\ UNCHANGED <<newCommandPool, nextPool, callVars, queueVars, frameVars>>

\* ------------------------------------------------------------ specification
Next ==
    \/ DrawFrameBegin
    \/ WaitForFences
    \/ AcquireNextImage
    \/ RecreateSwapChain
    \/ UpdateUniformBuffer
    \/ ProcessLoadedMeshes_Lock
    \/ ProcessLoadedMeshes_While
    \/ ProcessLoadedMeshes_Pop
    \/ ProcessLoadedMeshes_Rebuild
    \/ CreateVertexBuffer_Finish
    \/ CreateIndexBuffer_Submit
    \/ CreateIndexBuffer_Finish
    \/ SubmitFrame
    \/ PresentFrame
    \/ GpuComplete
    \/ OnResize
    \/ OnQuit
    \/ \E w \in Workers : ImportMesh_Lock(w)
    \/ \E w \in Workers : ImportMesh_Push(w)

Spec == Init /\ [][Next]_vars

\* The frame loop while the window is resized, minimized and restored; the
\* import tasks have not delivered yet.
SurfaceNext ==
    \/ DrawFrameBegin
    \/ WaitForFences
    \/ AcquireNextImage
    \/ RecreateSwapChain
    \/ UpdateUniformBuffer
    \/ ProcessLoadedMeshes_Lock
    \/ ProcessLoadedMeshes_While
    \/ ProcessLoadedMeshes_Pop
    \/ ProcessLoadedMeshes_Rebuild
    \/ CreateVertexBuffer_Finish
    \/ CreateIndexBuffer_Submit
    \/ CreateIndexBuffer_Finish
    \/ SubmitFrame
    \/ PresentFrame
    \/ GpuComplete
    \/ OnResize
    \/ OnQuit
    \/ SurfaceChange

SurfaceSpec == Init /\ [][SurfaceNext]_vars

\* Single calls of the functions that create the swapchain, buffers and images.
CallNext ==
    \/ Call_chooseSwapExtent
    \/ Call_SwapChainManager_chooseSwapExtent
    \/ Call_imageCount
    \/ Call_SwapChainManager_imageCount
    \/ Call_createSwapChain
    \/ Call_SwapChainManager_init
    \/ Call_createBuffer
    \/ Call_createImage
    \/ Call_createVertexBuffer
    \/ Call_createIndexBuffer
    \/ Call_findMemoryType
    \/ Call_generateMipmaps
    \/ Call_createDevices
    \/ Call_chooseSwapSurfaceFormat
    \/ Call_SwapChainManager_chooseSwapSurfaceFormat
    \/ Call_getCommandBuffer
    \/ Call_resetCommandBuffer
    \/ Call_acquireNextImage
    \/ Call_SwapChainManager_acquireNextImage
    \/ Call_findSupportedFormat
    \/ Call_findDepthFormat

CallSpec == Init /\ [][CallNext]_vars

\* vkAcquireNextImageKHR and threadSafePresent reporting VK_SUCCESS.
AcquireNextImage_Success == AcquireNextImage /\ acquireResult' = "VK_SUCCESS"
PresentFrame_Success == PresentFrame /\ presentResult' = "VK_SUCCESS"

\* CleanFrames consecutive drawFrame calls after init(), with no resize
\* event and no result other than VK_SUCCESS, while the import tasks run.
CleanNext ==
    \/ DrawFrame_Begin(CleanFrames)
    \/ WaitForFences
    \/ AcquireNextImage_Success
    \/ UpdateUniformBuffer
    \/ ProcessLoadedMeshes_Lock
    \/ ProcessLoadedMeshes_While
    \/ ProcessLoadedMeshes_Pop
    \/ ProcessLoadedMeshes_Rebuild
    \/ CreateVertexBuffer_Finish
    \/ CreateIndexBuffer_Submit
    \/ CreateIndexBuffer_Finish
    \/ SubmitFrame
    \/ PresentFrame_Success
    \/ GpuComplete
    \/ \E w \in Workers : ImportMesh_Lock(w)
    \/ \E w \in Workers : ImportMesh_Push(w)

CleanSpec == Init /\ [][CleanNext]_vars

\* The frame loop for at most ShutdownFrames drawFrame calls, the quit event
\* and the shutdown that follows it.
ShutdownNext ==
    \/ DrawFrame_Begin(ShutdownFrames)
    \/ WaitForFences
    \/ AcquireNextImage
    \/ RecreateSwapChain
    \/ UpdateUniformBuffer
    \/ ProcessLoadedMeshes_Lock
    \/ ProcessLoadedMeshes_While
    \/ ProcessLoadedMeshes_Pop
    \/ ProcessLoadedMeshes_Rebuild
    \/ CreateVertexBuffer_Finish
    \/ CreateIndexBuffer_Submit
    \/ CreateIndexBuffer_Finish
    \/ SubmitFrame
    \/ PresentFrame
    \/ GpuComplete
    \/ OnResize
    \/ OnQuit
    \/ Shutdown_DeviceWaitIdle
    \/ Clean
    \/ \E w \in Workers : ImportMesh_Lock(w)
    \/ \E w \in Workers : ImportMesh_Push(w)

ShutdownSpec == Init /\ [][ShutdownNext]_vars

\* The frame loop with a GPU that finishes every submission and a render
\* thread that resumes once the fence it waits on is signalled.
FenceNext ==
    \/ DrawFrame_Begin(FenceFrames)
    \/ WaitForFences
    \/ AcquireNextImage
    \/ RecreateSwapChain
    \/ UpdateUniformBuffer
    \/ ProcessLoadedMeshes_Lock
    \/ ProcessLoadedMeshes_While
    \/ ProcessLoadedMeshes_Pop
    \/ ProcessLoadedMeshes_Rebuild
    \/ CreateVertexBuffer_Finish
    \/ CreateIndexBuffer_Submit
    \/ CreateIndexBuffer_Finish
    \/ SubmitFrame
    \/ PresentFrame
    \/ GpuComplete
    \/ OnResize
    \/ \E w \in Workers : ImportMesh_Lock(w)
    \/ \E w \in Workers : ImportMesh_Push(w)

FenceSpec ==
    Init /\ [][FenceNext]_vars /\ WF_vars(GpuComplete) /\ WF_vars(WaitForFences)

\* The renderer from the end of init() to clean(), with drawFrame called
\* whether or not the renderer is running.
LifecycleNext ==
    \/ Init_Finish
    \/ DrawFrame_NotRunning
    \/ ShutdownNext

LifecycleSpec == BeforeInitReturns /\ [][LifecycleNext]_vars

\* The queue operations of the rendering thread and of the import tasks.
QueueNext ==
    \/ \E t \in Threads : BeginSingleTimeCommands(t)
    \/ \E t \in Threads : EndSingleTimeCommands_End(t)
    \/ \E t \in Threads : EndSingleTimeCommands_Submit(t)
    \/ \E t \in Threads : EndSingleTimeCommands_Submitted(t)
    \/ \E t \in Threads : EndSingleTimeCommands_WaitIdle(t)
    \/ \E t \in Threads : EndSingleTimeCommands_Return(t)
    \/ DrawFrame_Submit
    \/ DrawFrame_Submitted
    \/ DrawFrame_Present
    \/ DrawFrame_Presented

QueueSpec == Init /\ [][QueueNext]_vars

\* The getCommandPool calls of the rendering thread and of the import tasks.
PoolNext ==
    \/ \E t \in PoolThreads : GetCommandPool_Enter(t)
    \/ \E t \in PoolThreads : GetCommandPool_Contains(t)
    \/ \E t \in PoolThreads : CreateCommandPool(t)
    \/ \E t \in PoolThreads : GetCommandPool_Insert(t)
    \/ \E t \in PoolThreads : GetCommandPool_InsertRaced(t)
    \/ \E t \in PoolThreads : GetCommandPool_Return(t)

PoolSpec == Init /\ [][PoolNext]_vars

\* ------------------------------------------------------------ properties
Min(a, b) == IF a < b THEN a ELSE b

\* The current drawFrame call made the call op.
Called(op) == \E i \in 1 .. Len(callLog) : callLog[i][1] = op

\* Position of the call op in the log (0 when absent); a drawFrame call
\* makes each call at most once.
FirstIndex(op) ==
    IF Called(op)
    THEN CHOOSE i \in 1 .. Len(callLog) : callLog[i][1] = op
    ELSE 0

Stale == {"VK_ERROR_OUT_OF_DATE_KHR", "VK_SUBOPTIMAL_KHR"}

\* C1: a buffer put on a deferred-destroy list during the k-th drawFrame
\* call is destroyed during the (k+N)-th call, N = MAX_FRAMES_IN_FLIGHT,
\* and in no earlier call.
C1_DrainedAfterNFrames ==
    \A h \in Handles :
        destroyedAt[h] # 0 => destroyedAt[h] = retiredAt[h] + MAX_FRAMES_IN_FLIGHT

\* C2: no submitted, unfinished command buffer was recorded with a vertex
\* or index buffer that cleanupFrameResources has destroyed.
C2_NoInFlightUseOfDestroyed ==
    \A i \in 1 .. Len(inflight) :
        inflight[i].kind = "draw" =>
            /\ inflight[i].vertexBuffer \notin destroyed
            /\ inflight[i].indexBuffer \notin destroyed

\* C2 witness: cleanupFrameResources has just destroyed retired buffers,
\* before the fence wait of this call, while a command buffer is unfinished.
C2_Witness ==
    /\ pc = "waitFence"
    /\ \E h \in Handles : destroyedAt[h] = frameNo /\ h \in destroyed
    /\ inflight # <<>>

\* C3 (as stated): between any two consecutive waits on a slot's fence
\* there is a reset of that fence: no fence is waited on twice since its
\* last reset.
C3_OneWaitPerReset ==
    \A s \in Slots : Len(fenceWaits[s]) <= 1

\* C3 (amended): a fence is waited on again without a reset in between only
\* when the call of the earlier wait returned early because acquisition
\* reported out-of-date.
C3_RepeatedWaitOnlyAfterSkip ==
    \A s \in Slots :
        \A i \in 1 .. (Len(fenceWaits[s]) - 1) :
            fenceWaits[s][i] = "VK_ERROR_OUT_OF_DATE_KHR"

\* C3 witness: a fence waited on a second time since its last reset, in a
\* call that is under way.
C3_Witness ==
    \E s \in Slots :
        /\ Len(fenceWaits[s]) >= 2
        /\ fenceWaits[s][Len(fenceWaits[s])] = "open"
        /\ pc = "acquire"

\* The order of the steps of a drawFrame call on slot cf.
FrameOrder(cf) ==
    << <<"advance", cf>>,
       <<"cleanupFrameResources", (cf + 1) % MAX_FRAMES_IN_FLIGHT>>,
       <<"vkWaitForFences", cf>>,
       <<"vkAcquireNextImageKHR", cf>>,
       <<"updateUniformBuffer", cf>>,
       <<"processLoadedMeshes", cf>>,
       <<"vkResetFences", cf>>,
       <<"resetCommandBuffer", cf>>,
       <<"recordCommandBuffer", cf>>,
       <<"threadSafeQueueSubmit", cf>>,
       <<"threadSafePresent", cf>> >>

Acquired == acquireResult \in {"VK_SUCCESS", "VK_SUBOPTIMAL_KHR"}

\* C4: a drawFrame call that acquires an image makes its steps in the order
\* advance, drain slot (current+1) mod N, wait fence, acquire, update
\* uniforms, drain imports, reset fence, reset and record the command
\* buffer, submit, present; a call that has presented has made all of them;
\* every submission waits on the image-available semaphore of its slot and
\* signals the render-finished semaphore and the fence of its slot.
C4_FrameStepOrder ==
    /\ Acquired =>
          LET n == Min(Len(callLog), Len(FrameOrder(currentFrame)))
          IN  /\ SubSeq(callLog, 1, n) = SubSeq(FrameOrder(currentFrame), 1, n)
              /\ pc \in {"idle", "recreatePresent"} => n = Len(FrameOrder(currentFrame))
    /\ \A i \in 1 .. Len(inflight) :
          inflight[i].kind = "draw" =>
              /\ inflight[i].waitSemaphore = inflight[i].slot
              /\ inflight[i].signalSemaphore = inflight[i].slot
              /\ inflight[i].fence = inflight[i].slot

\* C4 witness: a second or later call that acquired, drained an import,
\* submitted and presented has returned.
C4_Witness ==
    /\ pc = "idle"
    /\ frameNo >= 2
    /\ acquireResult = "VK_SUCCESS"
    /\ presentResult = "VK_SUCCESS"
    /\ \E h \in Handles : retiredAt[h] = frameNo
    /\ callLog = FrameOrder(currentFrame)

\* C5: a drawFrame call whose acquisition reports out-of-date recreates the
\* swapchain and returns: it makes no uniform update, import drain, fence
\* reset, recording, submit or present, and it does not abort.
C5_OutOfDateSkipsFrame ==
    acquireResult = "VK_ERROR_OUT_OF_DATE_KHR" =>
        /\ pc \in {"recreateAcquire", "idle"}
        /\ inFlightFences[currentFrame]
        /\ \A op \in {"updateUniformBuffer", "processLoadedMeshes", "vkResetFences",
                      "resetCommandBuffer", "recordCommandBuffer",
                      "threadSafeQueueSubmit", "threadSafePresent"} : ~Called(op)
        /\ pc = "idle" => /\ Called("createSwapChain")
                          /\ Len(callLog) = FirstIndex("vkAcquireNextImageKHR")
                                              + Len(recreateSwapChain(0, 0))

\* C5 witness: a call skipped at acquire has returned with a new swapchain.
C5_Witness ==
    /\ acquireResult = "VK_ERROR_OUT_OF_DATE_KHR"
    /\ pc = "idle"
    /\ swapChain > 1
    /\ modelQueue # <<>>

\* C6 (as stated): a call in which acquisition or presentation reported
\* out-of-date or suboptimal, or that found the resize flag set, has
\* recreated the swapchain when it returns.
C6_StaleAlwaysRecreates ==
    (/\ pc = "idle"
     /\ \/ acquireResult \in Stale
        \/ presentResult \in Stale
        \/ resizedAtPresent)
    => Called("createSwapChain")

\* C6 (amended): recreation follows an out-of-date acquisition, an
\* out-of-date or suboptimal presentation and a resize flag found set after
\* present; a suboptimal acquisition alone does not lead to recreation: the
\* frame is submitted and presented, and the swapchain is recreated in that
\* call only for one of the other reasons.
C6_RecreationTriggers ==
    pc = "idle" /\ frameNo > 0 =>
        (Called("createSwapChain") <=>
            \/ acquireResult = "VK_ERROR_OUT_OF_DATE_KHR"
            \/ presentResult \in Stale
            \/ resizedAtPresent)

\* C6 witness: a call whose acquisition reported suboptimal and whose
\* presentation reported success with no resize has returned.
C6_Witness ==
    /\ pc = "idle"
    /\ acquireResult = "VK_SUBOPTIMAL_KHR"
    /\ presentResult = "VK_SUCCESS"
    /\ ~resizedAtPresent
    /\ Called("threadSafePresent")
    /\ ~Called("createSwapChain")

\* The post-present check, state by state: recreation is pending only after
\* submit and present, with the flag cleared; a call with a stale present
\* result or a set flag recreates after its present; a recreation before
\* present is only ever caused by an out-of-date acquisition.
PostPresentState ==
    /\ pc = "recreatePresent" =>
          /\ ~framebufferResized
          /\ presentResult \in Stale \/ resizedAtPresent
          /\ callLog = FrameOrder(currentFrame)
    /\ (presentResult \in Stale \/ resizedAtPresent) =>
          /\ pc \in {"recreatePresent", "idle"}
          /\ pc = "idle" =>
                /\ Called("createSwapChain")
                /\ FirstIndex("threadSafeQueueSubmit") < FirstIndex("threadSafePresent")
                /\ FirstIndex("threadSafePresent") < FirstIndex("handleMinimization")
    /\ pc \in {"present", "recreatePresent"} => Called("threadSafeQueueSubmit")
    /\ pc = "recreateAcquire" => acquireResult = "VK_ERROR_OUT_OF_DATE_KHR"

\* C7: the staleness and resize check comes after submit and present: when
\* present reports out-of-date or suboptimal, or the resize flag is set,
\* drawFrame clears the flag and runs recreateSwapChain after the present
\* call, and the flag is false when recreateSwapChain returns; a set resize
\* flag never suppresses the submit or the present of that frame.
C7_CheckAfterPresent ==
    /\ []PostPresentState
    /\ [][pc = "recreatePresent" /\ pc' # pc =>
             /\ pc' = "idle"
             /\ ~framebufferResized'
             /\ swapChain' = swapChain + 1]_vars
    /\ [][framebufferResized /\ pc = "submit" /\ pc' # pc => pc' = "present"]_vars
    /\ [][framebufferResized /\ pc = "present" /\ pc' # pc =>
             Called("threadSafePresent")' /\ pc' = "recreatePresent"]_vars

\* C7 witness: the resize flag was set, present reported success, and the
\* call is about to recreate the swapchain with the flag cleared.
C7_Witness ==
    /\ pc = "recreatePresent"
    /\ resizedAtPresent
    /\ presentResult = "VK_SUCCESS"
    /\ ~framebufferResized

\* The recreation protocol: device idle, then the destroys, then the creates.
RecreationOrder(old, new) ==
    << <<"deviceWaitIdle", old>>,
       <<"destroyDepthResources", old>>,
       <<"destroyColorResources", old>>,
       <<"destroyFramebuffers", old>>,
       <<"destroyImageViews", old>>,
       <<"vkDestroySwapchainKHR", old>>,
       <<"createSwapChain", new>>,
       <<"createImageViews", new>>,
       <<"createColorResources", new>>,
       <<"createDepthResources", new>>,
       <<"createFramebuffers", new>> >>

RecreationSteps ==
    {"deviceWaitIdle", "destroyDepthResources", "destroyColorResources",
     "destroyFramebuffers", "destroyImageViews", "vkDestroySwapchainKHR",
     "createSwapChain", "createImageViews", "createColorResources",
     "createDepthResources", "createFramebuffers"}

IsAttachmentStep(e) ==
    e[1] \in {"destroyDepthResources", "destroyColorResources",
              "createColorResources", "createDepthResources"}

\* C8: every recreation waits for the device to be idle, destroys the depth
\* and colour attachments, the framebuffers, the image views and the
\* swapchain, then creates swapchain, image views, colour and depth
\* attachments and framebuffers, in this order; nothing is destroyed before
\* the wait and nothing is created before the old swapchain is destroyed;
\* no GPU work is unfinished when the call returns.  SwapChainManager's
\* recreate makes the same steps, less the attachment steps, in that order.
C8_RecreationOrder ==
    /\ Called("deviceWaitIdle") =>
          /\ SubSeq(callLog, FirstIndex("deviceWaitIdle"), Len(callLog))
                = RecreationOrder(swapChain - 1, swapChain)
          /\ pc = "idle"
          /\ inflight = <<>>
    /\ ~Called("deviceWaitIdle") =>
          \A i \in 1 .. Len(callLog) : callLog[i][1] \notin RecreationSteps
    /\ Tail(SwapChainManager_recreate(swapChain, swapChain + 1))
          = SelectSeq(RecreationOrder(swapChain, swapChain + 1),
                      LAMBDA e : ~IsAttachmentStep(e))

\* C8 witness: a recreation after present has completed.
C8_Witness ==
    /\ pc = "idle"
    /\ presentResult = "VK_ERROR_OUT_OF_DATE_KHR"
    /\ Called("createFramebuffers")
    /\ swapChain >= 2

\* A completed import of mesh m was placed on the queue.
Queued(m) == IF m = SkyboxMesh THEN TRUE ELSE workerPc[m] = "done"

Count(seq, x) == Cardinality({i \in 1 .. Len(seq) : seq[i] = x})

\* C9: each import placed on the queue is consumed exactly once: it is
\* removed from the queue once, registered with the asset storage once and
\* given one render instance with identity transform; none is lost or
\* processed twice.
C9_ConsumedExactlyOnce ==
    \A m \in Meshes :
        /\ popped[m] <= 1
        /\ Count(modelQueue, m) + popped[m] = (IF Queued(m) THEN 1 ELSE 0)
        /\ Count(storage, m) = popped[m]
        /\ Count(models, [mesh |-> m, transform |-> "identity"]) = popped[m]

\* C10: every access to the import queue is made by a thread that holds
\* the import mutex, and the rendering thread unlocks the mutex only when
\* it holds it.
C10_QueueAccessUnderMutex ==
    /\ pc \in {"plmWhile", "plmPop"} => RenderThread \in importModelMutex
    /\ \A w \in Workers : workerPc[w] = "locked" => w \in importModelMutex

\* ------------------------------------------------------------ geometry: properties
RECURSIVE VertexCount(_)
VertexCount(parts) ==
    IF parts = <<>> THEN 0
    ELSE Len(Vertices(Head(parts)[1], Head(parts)[2])) + VertexCount(Tail(parts))

RECURSIVE IndexCount(_)
IndexCount(parts) ==
    IF parts = <<>> THEN 0
    ELSE Len(Indices(Head(parts)[1], Head(parts)[2])) + IndexCount(Tail(parts))

RECURSIVE ConcatIndices(_)
ConcatIndices(parts) ==
    IF parts = <<>> THEN <<>>
    ELSE Indices(Head(parts)[1], Head(parts)[2]) \o ConcatIndices(Tail(parts))

\* The rebuild of the current processLoadedMeshes call has returned.
RebuildDone == pc = "submit" /\ drained # <<>>

\* The offsets, the index data and the totals are those of the parts of the
\* storage taken in order.
GeometryCombined ==
    LET parts == MeshParts(storage)
    IN  /\ Len(meshPartOffsets) = Len(parts)
        /\ \A i \in 1 .. Len(parts) :
              /\ meshPartOffsets[i].mesh = parts[i][1]
              /\ meshPartOffsets[i].part = parts[i][2]
              /\ meshPartOffsets[i].vertexOffset = VertexCount(SubSeq(parts, 1, i - 1))
              /\ meshPartOffsets[i].indexOffset = IndexCount(SubSeq(parts, 1, i - 1))
        /\ \A i, j \in 1 .. Len(parts) :
              i < j => /\ meshPartOffsets[i].vertexOffset < meshPartOffsets[j].vertexOffset
                       /\ meshPartOffsets[i].indexOffset < meshPartOffsets[j].indexOffset
        /\ uploaded.indices = ConcatIndices(parts)
        /\ globalBuffers.totalVertices = VertexCount(parts)
        /\ globalBuffers.totalIndices = IndexCount(parts)

\* C11: a processLoadedMeshes call that finds two meshes on the import queue
\* (mesh 1 with 3 parts, mesh 2 with 2 parts, pushed by concurrent importMesh
\* calls) completes and processes both: it does not end in an exception
\* after taking the second mesh, and when its rebuild has returned both
\* meshes are in the storage, the combined index data is the concatenation
\* of the indices of all parts, each part's offsets are the sums of the
\* counts of the parts before it, and the totals are the sums of the counts.
C11_DrainCombinesBothMeshes ==
    /\ drained \in {<<1, 2>>, <<2, 1>>} => pc # "aborted"
    /\ RebuildDone =>
          /\ \A i \in 1 .. Len(drained) : Count(storage, drained[i]) = 1
          /\ GeometryCombined

\* The combination itself, for the calls that return.
C11_CombinedWhenRebuilt == RebuildDone => GeometryCombined

C11_TwoMeshesQueued ==
    /\ pc = "plmWhile"
    /\ modelQueue = <<1, 2>>
    /\ RenderThread \in importModelMutex

\* The steps of one staged upload, in the order required of them.
UploadSteps ==
    <<"createBuffer", "vkMapMemory", "memcpy", "vkUnmapMemory", "createBuffer",
      "vkAllocateCommandBuffers", "vkBeginCommandBuffer", "vkCmdCopyBuffer",
      "vkEndCommandBuffer", "threadSafeQueueSubmit", "vkQueueWaitIdle",
      "vkFreeCommandBuffers", "vkDestroyBuffer", "vkFreeMemory">>

IsPrefix(a, b) == Len(a) <= Len(b) /\ a = SubSeq(b, 1, Len(a))

\* A copy into buffer h is submitted and has not completed.
CopyPending(h) ==
    \E i \in 1 .. Len(inflight) :
        inflight[i].kind = "transfer" /\ inflight[i].dst = h

\* C19: createVertexBuffer and createIndexBuffer upload through a staging
\* buffer in the order create staging, map, copy, unmap, create destination,
\* allocate, begin, copy, end, submit, queue-wait-idle, free; the staging
\* buffer is destroyed only when its copy has completed, and no submitted
\* draw uses a destination buffer whose copy has not completed.
C19_StagedUploadOrder ==
    /\ IsPrefix([i \in 1 .. Len(uploadLog) |-> uploadLog[i][1]],
                UploadSteps \o UploadSteps)
    /\ \A i \in 1 .. Len(inflight) :
          /\ inflight[i].kind = "transfer" =>
                /\ inflight[i].src \notin destroyed
                /\ inflight[i].dst \notin destroyed
          /\ inflight[i].kind = "draw" =>
                /\ ~CopyPending(inflight[i].vertexBuffer)
                /\ ~CopyPending(inflight[i].indexBuffer)
    /\ pc \in {"vertexCopyWait", "indexCopyWait"} =>
          uploadLog[Len(uploadLog)][1] = "threadSafeQueueSubmit"

\* Both uploads of a rebuild have returned and a draw that uses the new
\* buffers is submitted.
C19_Witness ==
    /\ Len(uploadLog) = 2 * Len(UploadSteps)
    /\ globalBuffers.vertexBuffer - 1 \in destroyed
    /\ globalBuffers.indexBuffer - 1 \in destroyed
    /\ \E i \in 1 .. Len(inflight) :
          /\ inflight[i].kind = "draw"
          /\ inflight[i].vertexBuffer = globalBuffers.vertexBuffer
          /\ inflight[i].indexBuffer = globalBuffers.indexBuffer

\* ------------------------------------------------------------ single calls: properties
IsImageCountCall == fnCall.fn \in {"imageCount", "SwapChainManager::imageCount"}

\* C13 (as stated): the image count requested lies in
\* [minImageCount + 1, maxImageCount] for every pair (minImageCount,
\* maxImageCount), maxImageCount = minImageCount and maxImageCount = 0 included.
C13_ImageCountInRange ==
    IsImageCountCall =>
        /\ fnCall.minImageCount + 1 <= fnResult
        /\ fnResult <= fnCall.maxImageCount

\* C13 (amended): the image count requested is minImageCount + 1, lowered to
\* maxImageCount when maxImageCount is not 0 and is below minImageCount + 1:
\* it never exceeds minImageCount + 1 nor a nonzero maxImageCount, it is
\* minImageCount + 1 when maxImageCount is 0 (no upper limit) or above
\* minImageCount, and it is maxImageCount (= minImageCount, below
\* minImageCount + 1) when maxImageCount = minImageCount.
C13_ImageCountClamped ==
    IsImageCountCall =>
        LET mn == fnCall.minImageCount
            mx == fnCall.maxImageCount
        IN  /\ fnResult <= mn + 1
            /\ mx > 0 => fnResult <= mx
            /\ (mx = 0 \/ mx > mn) => fnResult = mn + 1
            /\ (mx > 0 /\ mx <= mn) => fnResult = mx

\* C13 witness: a surface with maxImageCount = minImageCount gets
\* minImageCount images, one fewer than minImageCount + 1.
C13_Witness ==
    /\ fnCall.fn = "imageCount"
    /\ fnCall.minImageCount > 0
    /\ fnCall.maxImageCount = fnCall.minImageCount
    /\ fnResult = fnCall.minImageCount

IsZeroArea(extent) == extent.width = ToUint32(0) \/ extent.height = ToUint32(0)

\* C14: creating a swapchain for a chosen extent of width 0 or height 0
\* aborts before vkCreateSwapchainKHR is called, in VulkanRenderer's
\* createSwapChain and in SwapChainManager's init alike.
C14_ZeroExtentAborts ==
    (/\ fnCall.fn \in {"createSwapChain", "SwapChainManager::init"}
     /\ IsZeroArea(fnCall.extent))
    => /\ fnResult.status = "aborted"
       /\ fnResult.calls = <<>>

MathClamp(x, lo, hi) == IF x < lo THEN lo ELSE IF x > hi THEN hi ELSE x

\* C16: chooseSwapExtent returns the surface's current extent when its
\* width is not the maximum 32-bit value; otherwise the platform size with
\* width and height each clamped into [minImageExtent, maxImageExtent],
\* negative and zero sizes included.
C16_ExtentChosen ==
    fnCall.fn \in {"chooseSwapExtent", "SwapChainManager::chooseSwapExtent"} =>
        IF fnCall.capabilities.currentExtent.width # UINT32_MAX
        THEN fnResult = fnCall.capabilities.currentExtent
        ELSE fnResult = Extent32(MathClamp(fnCall.windowInfo.width,
                                           fnCall.minImageExtent.width,
                                           fnCall.maxImageExtent.width),
                                 MathClamp(fnCall.windowInfo.height,
                                           fnCall.minImageExtent.height,
                                           fnCall.maxImageExtent.height))

\* ------------------------------------------------------------ swapchain: properties
\* drawFrame is between its uniform update and its present.
Rendering ==
    pc \in {"updateUniform", "plmLock", "plmWhile", "plmPop", "plmRebuild",
            "vertexCopyWait", "indexUpload", "indexCopyWait", "submit", "present"}

\* C15: whenever drawFrame updates uniforms, records or submits a frame,
\* the stored swapchain extent has a nonzero width and a nonzero height,
\* whatever resize, minimization and recreation came before; so has the
\* extent every submitted frame was recorded with.
C15_ExtentNonzeroWhileRendering ==
    /\ Rendering => ~IsZeroArea(swapChainDetails.extent)
    /\ \A i \in 1 .. Len(inflight) :
          inflight[i].kind = "draw" => ~IsZeroArea(inflight[i].extent)

\* C15 witness: a frame is submitted with the extent of a recreation while
\* the window is minimized.
C15_Witness ==
    /\ pc = "submit"
    /\ swapChain >= 2
    /\ surface = MinimizedSurface
    /\ swapChainDetails.extent = Extent32(MaxExtent, 1)

\* C17: after a recreation triggered by an out-of-date acquisition there is
\* one image view and one framebuffer per image of the new swapchain, every
\* image index the swapchain can return indexes a framebuffer, and every
\* image view and framebuffer in use belongs to the new swapchain.
C17_RecreatedPerImageObjects ==
    (/\ pc = "idle"
     /\ acquireResult = "VK_ERROR_OUT_OF_DATE_KHR"
     /\ Called("createFramebuffers"))
    => LET images == swapChainDetails.images
       IN  /\ Len(swapChainImageViews) = Len(images)
           /\ Len(swapChainFramebuffers) = Len(images)
           /\ \A index \in 0 .. (Len(images) - 1) :
                  (index + 1) \in DOMAIN swapChainFramebuffers
           /\ \A i \in DOMAIN swapChainImageViews :
                  /\ swapChainImageViews[i].image.swapChain = swapChain
                  /\ swapChainImageViews[i].image.index = i
           /\ \A i \in DOMAIN swapChainFramebuffers :
                  /\ swapChainFramebuffers[i].imageView.image.swapChain = swapChain
                  /\ swapChainFramebuffers[i].imageView.image.index = i
                  /\ swapChainFramebuffers[i].extent = swapChainDetails.extent
           /\ \A k \in 1 .. Len(inflight) :
                  inflight[k].kind = "draw" =>
                      inflight[k].framebuffers \subseteq SeqToSet(swapChainFramebuffers)

\* C17 witness: the first recreation, after an out-of-date acquisition,
\* made a swapchain with another number of images than the 3 at start.
C17_Witness ==
    /\ pc = "idle"
    /\ acquireResult = "VK_ERROR_OUT_OF_DATE_KHR"
    /\ Called("createFramebuffers")
    /\ swapChain = 2
    /\ Len(swapChainDetails.images) # 3
    /\ Len(swapChainFramebuffers) = Len(swapChainDetails.images)

\* The graphics-API calls that create a buffer, an image or its memory.
CreationCalls ==
    {"vkCreateBuffer", "vkCreateImage", "vkAllocateMemory", "vkBindBufferMemory",
     "vkBindImageMemory", "createBuffer", "vkMapMemory"}

CallNames ==
    IF fnCall.fn \in {"createBuffer", "createImage"}
    THEN SeqToSet(fnResult)
    ELSE {fnResult[i][1] : i \in 1 .. Len(fnResult)}

ZeroSized ==
    \/ fnCall.fn = "createBuffer" /\ fnCall.size = 0
    \/ fnCall.fn = "createImage" /\ (fnCall.width = 0 \/ fnCall.height = 0)
    \/ fnCall.fn \in {"createVertexBuffer", "createIndexBuffer"} /\ fnCall.count = 0

\* C20: createBuffer with size 0 and createImage with width 0 or height 0
\* fail before any creation call of the graphics API; a createVertexBuffer
\* or createIndexBuffer with an empty list fails in the same way instead of
\* creating an empty buffer; with nonzero sizes the creation calls are made.
C20_ZeroSizeFailsBeforeCreation ==
    fnCall.fn \in {"createBuffer", "createImage", "createVertexBuffer",
                   "createIndexBuffer"} =>
        IF ZeroSized
        THEN CallNames = {"ASSERT"}
        ELSE "ASSERT" \notin CallNames /\ CallNames \cap CreationCalls # {}

\* A rebuild step called with an empty list ended at the size check.
C20_Witness ==
    /\ fnCall.fn = "createVertexBuffer"
    /\ fnCall.count = 0
    /\ fnResult = << <<"ASSERT", 1>> >>

\* ------------------------------------------------------------ queue: properties
\* The positions inside vkQueueSubmit, vkQueuePresentKHR or vkQueueWaitIdle.
InQueueOperation ==
    {"inOneTimeSubmit", "inWaitIdle", "inFrameSubmit", "inPresent"}

\* C12: the submit of the frame, the present, the submit of a one-time
\* command and the queue-wait-idle after it are mutually exclusive: at no
\* time are two threads (the rendering thread, the import tasks) inside a
\* queue operation.
C12_QueueOperationsExclusive ==
    /\ Cardinality({t \in Threads : queuePc[t] \in InQueueOperation}) <= 1
    /\ graphicsQueueMutex = {t \in Threads : queuePc[t] \in InQueueOperation}

\* An import task waits idle on the queue while the rendering thread is
\* about to present and another task is about to submit.
C12_Witness ==
    /\ queuePc[RenderThread] = "present"
    /\ \E w \in Workers : queuePc[w] = "inWaitIdle"
    /\ \E w \in Workers : queuePc[w] = "oneTimeSubmit"

\* ------------------------------------------------------------ clean frames: properties
\* The number of calls of a function made by the current drawFrame call.
CallsMade(name) == Cardinality({i \in 1 .. Len(callLog) : callLog[i][1] = name})

\* One wait per fence reset and the slots in rotation.
OneWaitAndRotation ==
    /\ \A s \in Slots : Len(fenceWaits[s]) <= 1
    /\ frameNo >= 1 => currentFrame = frameNo % MAX_FRAMES_IN_FLIGHT

\* C18: with 2 slots and a 3-image swapchain, each of 5 consecutive
\* drawFrame calls with no resize event and no result other than success
\* makes exactly one submit and exactly one present (5 and 5 in all) and
\* exactly one wait on the one fence of its slot, and the slots are used in
\* rotation.
C18_CleanFramesSubmitAndPresent ==
    /\ (pc \in {"idle", "aborted"} /\ frameNo >= 1) =>
          /\ CallsMade("threadSafeQueueSubmit") = 1
          /\ CallsMade("threadSafePresent") = 1
          /\ CallsMade("vkWaitForFences") = 1
    /\ OneWaitAndRotation

\* The same for the calls that return.
C18_ReturnedCallsSubmitAndPresent ==
    /\ (pc = "idle" /\ frameNo >= 1) => callLog = FrameOrder(currentFrame)
    /\ OneWaitAndRotation

C18_FiveCallsReturned ==
    /\ pc = "idle"
    /\ frameNo = 5
    /\ MAX_FRAMES_IN_FLIGHT = 2
    /\ Len(swapChainDetails.images) = 3

\* ------------------------------------------------------------ memory types: properties
\* Bit b of a mask.
Bit(mask, b) == (mask \div ShiftLeft1(b)) % 2 = 1

\* The indices below memoryTypeCount allowed by the filter whose flags
\* contain every requested flag.
SuitableMemoryTypes ==
    {i \in 0 .. (fnCall.memProperties.memoryTypeCount - 1) :
        /\ Bit(fnCall.typeFilter, i)
        /\ \A b \in 0 .. 1 :
              Bit(fnCall.properties, b) => Bit(fnCall.memProperties.memoryTypes[i + 1], b)}

\* C21: findMemoryType returns the lowest index below memoryTypeCount whose
\* filter bit is set and whose property flags contain every requested flag,
\* and fails when there is none.
C21_LowestSuitableMemoryType ==
    fnCall.fn = "findMemoryType" =>
        IF SuitableMemoryTypes = {}
        THEN fnResult.status = "ASSERT"
        ELSE /\ fnResult.status = "returned"
             /\ fnResult.memoryIndex \in SuitableMemoryTypes
             /\ \A i \in SuitableMemoryTypes : fnResult.memoryIndex <= i

\* Two suitable types and an unsuitable one below them; a filter bit set at
\* an index that is not below memoryTypeCount.
C21_Witness ==
    /\ fnCall.fn = "findMemoryType"
    /\ Cardinality(SuitableMemoryTypes) >= 2
    /\ 0 \notin SuitableMemoryTypes
    /\ Bit(fnCall.typeFilter, fnCall.memProperties.memoryTypeCount)
    /\ fnResult = [status |-> "returned", memoryIndex |-> 1]

\* ------------------------------------------------------------ mipmaps: properties
\* The positions of the blits and of the barriers in the commands recorded.
Blits == {i \in 1 .. Len(fnResult) : fnResult[i].cmd = "vkCmdBlitImage"}
Barriers == {i \in 1 .. Len(fnResult) : fnResult[i].cmd = "vkCmdPipelineBarrier"}
BarriersOf(level) == {i \in Barriers : fnResult[i].baseMipLevel = level}
Transition(i) == <<fnResult[i].oldLayout, fnResult[i].newLayout>>

\* C22: generateMipmaps for K levels records K - 1 blits, level i - 1 to
\* level i for i = 1 .. K - 1, and K barrier transitions to shader-read-only,
\* one per level: every level below the last by the pair transfer-destination
\* to transfer-source (before its blit) and transfer-source to
\* shader-read-only (after it), the last level by a single barrier from
\* transfer-destination straight to shader-read-only; 2K - 1 barriers in all.
C22_MipmapBlitsAndBarriers ==
    (fnCall.fn = "generateMipmaps" /\ fnCall.linearBlit) =>
        LET K == fnCall.maxMipLevels
        IN  /\ Cardinality(Blits) = K - 1
            /\ \A i \in 1 .. (K - 1) :
                  \E b \in Blits :
                      /\ fnResult[b].srcMipLevel = i - 1
                      /\ fnResult[b].dstMipLevel = i
                      /\ b - 1 \in BarriersOf(i - 1)
                      /\ Transition(b - 1) = <<"TRANSFER_DST_OPTIMAL", "TRANSFER_SRC_OPTIMAL">>
                      /\ b + 1 \in BarriersOf(i - 1)
                      /\ Transition(b + 1) = <<"TRANSFER_SRC_OPTIMAL", "SHADER_READ_ONLY_OPTIMAL">>
            /\ \A level \in 0 .. (K - 2) : Cardinality(BarriersOf(level)) = 2
            /\ Cardinality(BarriersOf(K - 1)) = 1
            /\ Transition(Len(fnResult) - 1)
                  = <<"TRANSFER_DST_OPTIMAL", "SHADER_READ_ONLY_OPTIMAL">>
            /\ Len(fnResult) - 1 \in BarriersOf(K - 1)
            /\ Cardinality({i \in Barriers :
                                fnResult[i].newLayout = "SHADER_READ_ONLY_OPTIMAL"}) = K
            /\ Cardinality(Barriers) = 2 * K - 1

\* A texture with 3 levels: 2 blits and 5 barriers.
C22_Witness ==
    /\ fnCall.fn = "generateMipmaps"
    /\ fnCall.linearBlit
    /\ fnCall.maxMipLevels = 3
    /\ Cardinality(Blits) = 2
    /\ Cardinality(Barriers) = 5

\* ------------------------------------------------------------ surface formats: properties
PreferredSurfaceFormat ==
    [format |-> "VK_FORMAT_B8G8R8A8_SRGB", colorSpace |-> "VK_COLOR_SPACE_SRGB_NONLINEAR_KHR"]
ChoosesSurfaceFormat ==
    /\ fnCall.fn \in {"chooseSwapSurfaceFormat", "SwapChainManager::chooseSwapSurfaceFormat"}
    /\ fnCall.availableFormats # <<>>

\* C25: for a non-empty list of available formats, chooseSwapSurfaceFormat
\* returns B8G8R8A8 sRGB with the sRGB-nonlinear colour space when that pair
\* is anywhere in the list, and the first element of the list otherwise.
C25_PreferredFormatElseFirst ==
    ChoosesSurfaceFormat =>
        IF \E i \in 1 .. Len(fnCall.availableFormats) :
               fnCall.availableFormats[i] = PreferredSurfaceFormat
        THEN fnResult = PreferredSurfaceFormat
        ELSE fnResult = fnCall.availableFormats[1]

\* The preferred pair is last in a list that starts with the preferred format
\* in another colour space, and is returned.
C25_Witness ==
    /\ ChoosesSurfaceFormat
    /\ Len(fnCall.availableFormats) = 3
    /\ fnCall.availableFormats[1].format = "VK_FORMAT_B8G8R8A8_SRGB"
    /\ fnCall.availableFormats[1] # PreferredSurfaceFormat
    /\ fnCall.availableFormats[2] # PreferredSurfaceFormat
    /\ fnCall.availableFormats[3] = PreferredSurfaceFormat
    /\ fnResult = PreferredSurfaceFormat

\* ------------------------------------------------------------ physical devices: properties
\* What the claim asks of a device, stated on the device itself.
HasGraphicsAndPresentFamily(device) ==
    /\ \E i \in 1 .. Len(device.queueFamilies) : device.queueFamilies[i].graphics
    /\ \E i \in 1 .. Len(device.queueFamilies) : device.queueFamilies[i].present
Qualifies(device) ==
    /\ HasGraphicsAndPresentFamily(device)
    /\ "VK_KHR_swapchain" \in device.extensions
    /\ device.formatCount >= 1
    /\ device.presentModeCount >= 1
    /\ device.samplerAnisotropy
QualifyingDevices == {i \in 1 .. Len(fnCall.devices) : Qualifies(fnCall.devices[i])}

\* C24: createDevices picks the first enumerated device that has a graphics
\* and a present queue family, the required extensions, a surface format, a
\* present mode and anisotropic sampling; when no enumerated device has all
\* of them the call stops at a failed ASSERT, vkCreateDevice is never called
\* and no logical device exists.
C24_FirstSuitableDeviceOrAbort ==
    fnCall.fn = "createDevices" =>
        IF QualifyingDevices # {}
        THEN /\ fnResult.physicalDevice \in QualifyingDevices
             /\ \A i \in QualifyingDevices : fnResult.physicalDevice <= i
             /\ fnResult.vkCreateDevice
             /\ fnResult.logicalDevice <=> fnCall.vkResult = "VK_SUCCESS"
        ELSE /\ fnResult.status = "ASSERT"
             /\ fnResult.physicalDevice = 0
             /\ ~fnResult.vkCreateDevice
             /\ ~fnResult.logicalDevice

\* Two devices are enumerated, the first lacks only anisotropic sampling and
\* the second, whose graphics and present families differ, is picked.
C24_Witness ==
    /\ fnCall.fn = "createDevices"
    /\ Len(fnCall.devices) = 2
    /\ ~fnCall.devices[1].samplerAnisotropy
    /\ Qualifies([fnCall.devices[1] EXCEPT !.samplerAnisotropy = TRUE])
    /\ Len(fnCall.devices[2].queueFamilies) = 2
    /\ ~fnCall.devices[2].queueFamilies[1].graphics
    /\ fnResult.status = "returned"
    /\ fnResult.physicalDevice = 2

\* No enumerated device qualifies and startup stops without a logical device.
C24_WitnessAbort ==
    /\ fnCall.fn = "createDevices"
    /\ Len(fnCall.devices) = 2
    /\ QualifyingDevices = {}
    /\ fnResult.status = "ASSERT"

\* ------------------------------------------------------------ command pools: properties
\* C23: every thread gets a pool created on its first getCommandPool call and
\* the same pool on every later call, no two threads get the same pool, and
\* no thread modifies the thread-to-pool map while another thread is inside
\* it.
C23_OnePoolPerThreadNoConcurrentAccess ==
    /\ \A t \in PoolThreads : ~Races(t)
    /\ \A t \in PoolThreads : \A i \in 1 .. Len(poolsReturned[t]) :
          /\ poolsReturned[t][i] # VK_NULL_HANDLE
          /\ poolsReturned[t][i] = poolsReturned[t][1]
    /\ \A t, u \in PoolThreads : \A i \in 1 .. Len(poolsReturned[t]) :
          \A j \in 1 .. Len(poolsReturned[u]) :
              t # u => poolsReturned[t][i] # poolsReturned[u][j]

\* ------------------------------------------------------------ shutdown: properties
\* The destroy calls of clean() have been issued.
Cleaned == pc = "cleaned" /\ <<"vkDestroyDevice", swapChain>> \in SeqToSet(callLog)

PendingDraws(slot) ==
    {i \in 1 .. Len(inflight) : inflight[i].kind = "draw" /\ inflight[i].slot = slot}

\* C27: in a drawFrame call the command buffer of a slot is recorded only
\* right after its reset, it is reset only after vkWaitForFences on the fence
\* of that slot in the same call, and when it is reset and recorded no
\* earlier submission of it is unfinished.
C27_ResetRecordAfterFenceWait ==
    /\ \A i \in 1 .. Len(callLog) :
          callLog[i][1] = "recordCommandBuffer" =>
              /\ i > 1
              /\ callLog[i - 1] = <<"resetCommandBuffer", callLog[i][2]>>
    /\ \A i \in 1 .. Len(callLog) :
          callLog[i][1] = "resetCommandBuffer" =>
              /\ callLog[i][2] = currentFrame
              /\ \E j \in 1 .. (i - 1) : callLog[j] = <<"vkWaitForFences", currentFrame>>
    /\ CallsMade("recordCommandBuffer") <= 1
    /\ pc = "submit" => PendingDraws(currentFrame) = {}
    /\ \A slot \in Slots : Cardinality(PendingDraws(slot)) <= 1

\* The third drawFrame call has reset and recorded the command buffer of the
\* slot the first call used, while the submission of the second call is
\* unfinished.
C27_Witness ==
    /\ pc = "present"
    /\ frameNo >= 3
    /\ CallsMade("recordCommandBuffer") = 1
    /\ Cardinality(PendingDraws(currentFrame)) = 1
    /\ \E slot \in Slots \ {currentFrame} : PendingDraws(slot) # {}

\* ------------------------------------------------------------ recorded draws: properties
\* The positions of the commands of a kind in a list of commands.
Positions(commands, kind) == {i \in 1 .. Len(commands) : commands[i].cmd = kind}
DrawsOf(commands) == Positions(commands, "vkCmdDrawIndexed")

\* The draw submitted by the current drawFrame call, while the GPU has not
\* finished it.
SubmittedNow(i) ==
    /\ pc = "present"
    /\ i \in PendingDraws(currentFrame)

\* The number of indices, and of vertices, of the parts that precede part k
\* in a list of parts.
RECURSIVE IndicesBefore(_, _)
IndicesBefore(parts, k) ==
    IF k <= 1 THEN 0
    ELSE IndicesBefore(parts, k - 1) + Len(Indices(parts[k - 1][1], parts[k - 1][2]))
RECURSIVE VerticesBefore(_, _)
VerticesBefore(parts, k) ==
    IF k <= 1 THEN 0
    ELSE VerticesBefore(parts, k - 1) + Len(Vertices(parts[k - 1][1], parts[k - 1][2]))

\* The draws of a list of commands are those of the parts, in order, with
\* the offsets the parts have in the combined buffers.
DrawsMatchRebuild(commands, parts) ==
    /\ Cardinality(DrawsOf(commands)) = Len(parts)
    /\ \A k \in 1 .. Len(parts) :
          \E i \in DrawsOf(commands) :
              /\ Cardinality({j \in DrawsOf(commands) : j < i}) = k - 1
              /\ commands[i].mesh = parts[k][1]
              /\ commands[i].part = parts[k][2]
              /\ commands[i].indexOffset = IndicesBefore(parts, k)
              /\ commands[i].vertexOffset = VerticesBefore(parts, k)
              /\ commands[i].indexCount = Len(Indices(parts[k][1], parts[k][2]))

\* C28: every draw recorded by recordCommandBuffer uses offsets that the most
\* recent rebuild computed: indexOffset + indexCount is at most totalIndices
\* of the index buffer bound, vertexOffset is at most totalVertices, the parts
\* drawn are the parts of the meshes of the render instances with the offsets
\* they have in the buffers uploaded last, and no command buffer is recorded
\* while a render instance has a mesh that no rebuild has covered.
C28_DrawOffsetsFromLastRebuild ==
    /\ \A i \in 1 .. Len(inflight) :
          inflight[i].kind = "draw" =>
              \A c \in DrawsOf(inflight[i].commands) :
                  /\ inflight[i].commands[c].rebuilt
                  /\ inflight[i].commands[c].indexOffset + inflight[i].commands[c].indexCount
                         <= inflight[i].totalIndices
                  /\ inflight[i].commands[c].vertexOffset <= inflight[i].totalVertices
    /\ \A i \in 1 .. Len(inflight) :
          SubmittedNow(i) =>
              /\ inflight[i].indexBuffer = globalBuffers.indexBuffer
              /\ inflight[i].vertexBuffer = globalBuffers.vertexBuffer
              /\ inflight[i].totalIndices = Len(uploaded.indices)
              /\ inflight[i].totalVertices = Len(uploaded.vertices)
              /\ DrawsMatchRebuild(inflight[i].commands, MeshParts(ModelMeshes))
    /\ pc \in {"submit", "present"} =>
          /\ ModelMeshes = storage
          /\ \A k \in 1 .. Len(models) : \A p \in 1 .. NumParts(models[k].mesh) :
                \E j \in 1 .. Len(meshPartOffsets) :
                    meshPartOffsets[j].mesh = models[k].mesh /\ meshPartOffsets[j].part = p

\* A frame is recorded after the rebuild that followed a second mesh: a part
\* of the second mesh is drawn with nonzero offsets.
C28_Witness ==
    \E i \in 1 .. Len(inflight) :
        /\ SubmittedNow(i)
        /\ Len(models) = 2
        /\ \E c \in DrawsOf(inflight[i].commands) :
              /\ inflight[i].commands[c].mesh = models[2].mesh
              /\ inflight[i].commands[c].indexOffset > 0
              /\ inflight[i].commands[c].vertexOffset > 0
              /\ inflight[i].commands[c].indexOffset + inflight[i].commands[c].indexCount
                     = inflight[i].totalIndices

\* C29: recordCommandBuffer records one indexed draw for every part of every
\* loaded mesh, each right after the binding of the descriptor set of that
\* part for the slot of the frame, all of them between the one
\* vkCmdBeginRenderPass and the one vkCmdEndRenderPass, and the commands of
\* the UI overlay after the draws and before the end of the render pass.
C29_OneDrawPerPartInsideRenderPass ==
    \A i \in 1 .. Len(inflight) :
        inflight[i].kind = "draw" =>
            LET commands == inflight[i].commands
                begin == Positions(commands, "vkCmdBeginRenderPass")
                end == Positions(commands, "vkCmdEndRenderPass")
                overlay == Positions(commands, "renderDrawData")
            IN  /\ Cardinality(begin) = 1
                /\ Cardinality(end) = 1
                /\ Cardinality(overlay) = 1
                /\ \A b \in begin, e \in end, o \in overlay :
                      /\ b < o /\ o < e
                      /\ \A d \in DrawsOf(commands) : b < d /\ d < o
                /\ \A d \in DrawsOf(commands) :
                      /\ commands[d - 1].cmd = "vkCmdBindDescriptorSets"
                      /\ commands[d - 1].mesh = commands[d].mesh
                      /\ commands[d - 1].part = commands[d].part
                      /\ commands[d - 1].slot = inflight[i].slot
                /\ Cardinality(Positions(commands, "vkCmdBindDescriptorSets"))
                      = Cardinality(DrawsOf(commands))
                /\ SubmittedNow(i) =>
                      \A m \in Meshes : \A p \in 1 .. NumParts(m) :
                          Cardinality({d \in DrawsOf(commands) :
                                          commands[d].mesh = m /\ commands[d].part = p})
                            = Cardinality({k \in 1 .. Len(models) : models[k].mesh = m})

\* Two meshes are loaded and the frame recorded draws each of their parts.
C29_Witness ==
    \E i \in 1 .. Len(inflight) :
        /\ SubmittedNow(i)
        /\ Len(models) = 2
        /\ Cardinality(DrawsOf(inflight[i].commands))
              = NumParts(models[1].mesh) + NumParts(models[2].mesh)
        /\ Cardinality(DrawsOf(inflight[i].commands)) >= 3

\* ------------------------------------------------------------ empty import queue: properties
\* C30: a processLoadedMeshes call that finds the import queue empty returns
\* at once and changes nothing: no mesh is registered, no render instance is
\* added, no offset is recomputed, the combined buffers are not replaced,
\* nothing is put on a deferred-destroy list and no descriptor set is
\* allocated.
C30_EmptyQueueChangesNothing ==
    [][(pc = "plmLock" /\ pc' # "plmLock" /\ modelQueue = <<>>) =>
          /\ pc' = "submit"
          /\ importModelMutex' = {}
          /\ UNCHANGED <<storage, models, meshPartOffsets, globalBuffers, frames,
                         uploaded, uploadLog, descriptorSets, nextHandle, retiredAt,
                         destroyed, inflight, modelQueue, popped>>]_vars

\* A call found the queue empty after meshes had been loaded and returned
\* before the drain loop.
C30_Witness ==
    /\ pc = "submit"
    /\ callLog[Len(callLog)] = <<"processLoadedMeshes", currentFrame>>
    /\ drained = <<>>
    /\ Len(storage) >= 1
    /\ descriptorSets = MAX_FRAMES_IN_FLIGHT * Len(MeshParts(storage))
    /\ globalBuffers.vertexBuffer # VK_NULL_HANDLE

\* ------------------------------------------------------------ slot indices: properties
SlotIndexCalls ==
    {"getCommandBuffer", "resetCommandBuffer", "acquireNextImage",
     "SwapChainManager::acquireNextImage"}

\* C31: acquireNextImage, getCommandBuffer and resetCommandBuffer called with
\* a slot index below 0 or at least the number of slots fail (the renderer's
\* abort, out_of_range in SwapChainManager::acquireNextImage) before any call
\* on a semaphore, a command buffer or the swapchain; with an index in range
\* the first thing they use is the element at that index.
C31_SlotIndexChecked ==
    fnCall.fn \in SlotIndexCalls =>
        IF fnCall.index < 0 \/ fnCall.index >= MAX_FRAMES_IN_FLIGHT
        THEN /\ fnResult.calls = <<>>
             /\ fnResult.status = IF fnCall.fn = "SwapChainManager::acquireNextImage"
                                  THEN "out_of_range" ELSE "aborted"
        ELSE /\ fnResult.calls # <<>>
             /\ fnResult.calls[1][2] = fnCall.index
             /\ fnResult.status # "out_of_range"

C31_NegativeIndexRejected ==
    /\ fnCall.fn = "getCommandBuffer"
    /\ fnCall.index < 0
    /\ fnResult.status = "aborted"

\* ------------------------------------------------------------ supported formats: properties
\* The features of a format under a tiling contain every requested feature.
Supports(device, format, tiling, features) ==
    LET mask == IF tiling = "VK_IMAGE_TILING_LINEAR"
                THEN device[format].linearTilingFeatures
                ELSE device[format].optimalTilingFeatures
    IN  \A b \in 0 .. 12 : Bit(features, b) => Bit(mask, b)

\* The positions of the qualifying candidates of a findSupportedFormat call.
QualifyingCandidates ==
    {i \in 1 .. Len(fnCall.candidates) :
        Supports(fnCall.device, fnCall.candidates[i], fnCall.tiling, fnCall.features)}

SupportedDepthFormats ==
    {i \in 1 .. 3 :
        Supports(fnCall.device, DepthFormats[i], "VK_IMAGE_TILING_OPTIMAL",
                 VK_FORMAT_FEATURE_DEPTH_STENCIL_ATTACHMENT_BIT)}

Last(S) == CHOOSE i \in S : \A j \in S : j <= i

\* C40: findSupportedFormat returns the last candidate in list order whose
\* tiling features contain all requested features and fails when none
\* qualifies; findDepthFormat returns the last supported format among
\* D32_SFLOAT, D32_SFLOAT_S8_UINT, D24_UNORM_S8_UINT.
C40_LastSupportedFormat ==
    /\ fnCall.fn = "findSupportedFormat" =>
          IF QualifyingCandidates = {}
          THEN fnResult.status = "aborted"
          ELSE /\ fnResult.status = "returned"
               /\ fnResult.format = fnCall.candidates[Last(QualifyingCandidates)]
    /\ fnCall.fn = "findDepthFormat" =>
          IF SupportedDepthFormats = {}
          THEN fnResult.status = "aborted"
          ELSE /\ fnResult.status = "returned"
               /\ fnResult.format = DepthFormats[Last(SupportedDepthFormats)]

C40_LaterMatchReplacesFirst ==
    /\ fnCall.fn = "findSupportedFormat"
    /\ \E i, j \in QualifyingCandidates :
          /\ i < j
          /\ fnCall.candidates[i] # fnCall.candidates[j]
          /\ fnResult.format = fnCall.candidates[j]

\* ------------------------------------------------------------ slot rotation: properties
\* C33: the slot index stays in [0, MAX_FRAMES_IN_FLIGHT); it advances by
\* one modulo MAX_FRAMES_IN_FLIGHT on every drawFrame call that passes the
\* running check, calls skipped at acquire included, so it equals the number
\* of such calls modulo MAX_FRAMES_IN_FLIGHT; and the slot whose
\* deferred-destroy list the call drains is (current + 1) modulo
\* MAX_FRAMES_IN_FLIGHT.
C33_SlotIndexAdvances ==
    /\ currentFrame \in 0 .. (MAX_FRAMES_IN_FLIGHT - 1)
    /\ currentFrame = frameNo % MAX_FRAMES_IN_FLIGHT
    /\ frameNo > 0 =>
          /\ callLog[1] = <<"advance", currentFrame>>
          /\ callLog[2] = <<"cleanupFrameResources",
                            (currentFrame + 1) % MAX_FRAMES_IN_FLIGHT>>

\* The call after a call skipped at acquire has advanced the slot index.
C33_AdvancedAfterSkip ==
    /\ pc = "waitFence"
    /\ frameNo = 2
    /\ currentFrame = 0
    /\ fenceWaits[1] # <<>>
    /\ fenceWaits[1][1] = "VK_ERROR_OUT_OF_DATE_KHR"

\* ------------------------------------------------------------ resize flag: properties
\* C34: the resize flag is cleared only by the post-present check of
\* drawFrame; a recreation triggered by an out-of-date acquire leaves a set
\* flag set, and a call that reaches present with the flag set recreates the
\* swapchain whatever present reports, success included.
C34_FlagClearedOnlyAfterPresent ==
    /\ [][framebufferResized /\ ~framebufferResized' =>
             pc = "present" /\ pc' = "recreatePresent"]_vars
    /\ [][pc = "recreateAcquire" /\ pc' # pc =>
             framebufferResized' = framebufferResized]_vars
    /\ [][pc = "present" /\ framebufferResized /\ pc' # pc =>
             pc' = "recreatePresent"]_vars

\* The call after a call skipped at acquire, which recreated the swapchain,
\* found the flag set at present, got VK_SUCCESS and recreates again.
C34_SecondRecreation ==
    /\ pc = "recreatePresent"
    /\ frameNo = 2
    /\ swapChain = 2
    /\ fenceWaits[1] = <<"VK_ERROR_OUT_OF_DATE_KHR">>
    /\ resizedAtPresent
    /\ presentResult = "VK_SUCCESS"

\* ------------------------------------------------------------ failure results: properties
\* C35: after a present result other than success, out-of-date or
\* suboptimal, drawFrame has aborted at the present check exactly when the
\* resize flag was not set; with the flag set it goes on to recreate the
\* swapchain and the result is dropped. After an acquire result other than
\* success, suboptimal or out-of-date it has aborted at the acquire, always.
C35_FailureResults ==
    /\ presentResult \notin {"none", "VK_SUCCESS", "VK_ERROR_OUT_OF_DATE_KHR",
                             "VK_SUBOPTIMAL_KHR"} =>
          IF resizedAtPresent
          THEN /\ pc = "recreatePresent" \/ Called("deviceWaitIdle")
               /\ pc = "aborted" => callLog[Len(callLog)][1] = "createSwapChain"
          ELSE /\ pc = "aborted"
               /\ callLog[Len(callLog)][1] = "threadSafePresent"
    /\ acquireResult \notin {"none", "VK_SUCCESS", "VK_ERROR_OUT_OF_DATE_KHR",
                             "VK_SUBOPTIMAL_KHR"} =>
          /\ pc = "aborted"
          /\ callLog[Len(callLog)][1] = "vkAcquireNextImageKHR"

\* Present reported a failure with the resize flag set and the call has
\* recreated the swapchain and returned.
C35_FailureDropped ==
    /\ pc = "idle"
    /\ presentResult = "VK_ERROR_DEVICE_LOST"
    /\ resizedAtPresent
    /\ Called("createFramebuffers")

\* ------------------------------------------------------------ descriptor sets: properties
\* The sets allocated when every mesh of the list was registered by a
\* rebuild of its own: each rebuild allocates for the meshes known so far.
RECURSIVE SetsAfterRebuilds(_)
SetsAfterRebuilds(meshes) ==
    IF meshes = <<>> THEN 0
    ELSE SetsAfterRebuilds(SubSeq(meshes, 1, Len(meshes) - 1))
           + MAX_FRAMES_IN_FLIGHT * Len(MeshParts(meshes))

\* processLoadedMeshes is over in the current drawFrame call.
AfterProcessLoadedMeshes ==
    pc \in {"submit", "present", "recreatePresent", "idle", "aborted"}

\* C36: every processLoadedMeshes call that consumed at least one import
\* allocated MAX_FRAMES_IN_FLIGHT new descriptor sets for every part of
\* every known mesh and freed none, so once such a call is over the sets
\* taken from the pool are at least MAX_FRAMES_IN_FLIGHT for every part of
\* every mesh of the storage.
C36_ConsumingCallAllocates ==
    AfterProcessLoadedMeshes /\ drained # <<>> =>
        descriptorSets >= MAX_FRAMES_IN_FLIGHT * Len(MeshParts(storage))

\* The same for the calls that return from processLoadedMeshes, with the
\* exact count: nothing is freed, and every rebuild allocates for all
\* meshes known to it.
C36_ReturnedCallAllocates ==
    pc \in {"submit", "present", "recreatePresent", "idle"} /\ drained # <<>> =>
        descriptorSets = SetsAfterRebuilds(storage)

C36_SecondRebuildDone ==
    /\ pc = "submit"
    /\ drained # <<>>
    /\ Len(storage) = 2
    /\ descriptorSets > MAX_FRAMES_IN_FLIGHT * Len(MeshParts(storage))

\* ------------------------------------------------------------ deferred destroy: properties
\* The entries of the deferred-destroy lists, as <<slot, position>>.
ListEntries == {e \in Slots \X Handles : e[2] <= Len(frames[e[1]])}

\* The handles waiting on some deferred-destroy list.
PendingBuffers == {frames[e[1]][e[2]] : e \in ListEntries}

\* The combined buffers the renderer holds as current.
CurrentBuffers ==
    {globalBuffers.vertexBuffer, globalBuffers.indexBuffer} \ {VK_NULL_HANDLE}

\* C37: no buffer is destroyed more than once over drawFrame calls followed
\* by clean(): a retired buffer is on one deferred-destroy list, once;
\* nothing on a list has been destroyed already, so a list is emptied with
\* the destruction of its entries; and the buffers clean() destroys as the
\* current combined buffers are on no list and were not destroyed before.
C37_DestroyedOnce ==
    /\ \A e1, e2 \in ListEntries :
          frames[e1[1]][e1[2]] = frames[e2[1]][e2[2]] => e1 = e2
    /\ PendingBuffers \cap destroyed = {}
    /\ pc # "aborted" => CurrentBuffers \cap PendingBuffers = {}
    /\ pc \notin {"aborted", "cleaned"} => CurrentBuffers \cap destroyed = {}
    /\ \A h \in Handles : destroyedAt[h] > 0 => retiredAt[h] > 0 /\ h \notin CurrentBuffers

\* clean() has destroyed the current combined buffers after a drawFrame
\* call destroyed buffers retired by an earlier rebuild.
C37_CleanAfterDrain ==
    /\ Cleaned
    /\ CurrentBuffers # {}
    /\ CurrentBuffers \subseteq destroyed
    /\ \E h \in Handles : destroyedAt[h] > 0

\* C38: every buffer retired to a deferred-destroy list is destroyed before
\* the device is: when clean() has destroyed the device no retired buffer is
\* still waiting on a list.
C38_NothingPendingAtDeviceDestroy ==
    Cleaned => PendingBuffers = {}

\* What does hold: clean() leaves the lists as they are.
C38_ListsKeptByClean ==
    Cleaned => \A h \in Handles :
                  (retiredAt[h] > 0 /\ destroyedAt[h] = 0) <=> h \in PendingBuffers

\* ------------------------------------------------------------ running check: properties
\* C39: drawFrame does nothing while the renderer is not running, before
\* init() has set the flag and after the quit event: no step of the frame
\* (wait, acquire, import drain, submit, present, recreation) is taken, and
\* the call leaves the slot index, the deferred-destroy lists, the fences,
\* the import queue, the swapchain and the submissions as they were.
C39_NotRunningDoesNothing ==
    /\ [](~isRunning => pc \in {"init", "idle", "shutdown", "cleaned"})
    /\ [][(~isRunning /\ pc \in {"init", "idle"} /\ callLog' # callLog) =>
             /\ callLog' = << <<"return", currentFrame>> >>
             /\ UNCHANGED <<currentFrame, frames, inFlightFences, modelQueue,
                            swapChain, swapVars, inflight, destroyed, globalBuffers,
                            storage, models, meshVars, frameNo, pc, isRunning>>]_vars

\* drawFrame was called after the quit event, with a retired buffer still
\* on a deferred-destroy list.
C39_CalledAfterQuit ==
    /\ ~isRunning
    /\ pc = "idle"
    /\ frameNo >= 1
    /\ callLog = << <<"return", currentFrame>> >>
    /\ \E slot \in Slots : frames[slot] # <<>>

\* ------------------------------------------------------------ fences: properties
\* The fence of a slot is unsignalled exactly while the submission made
\* with it is unfinished, and a call skipped at acquire leaves the fence of
\* its slot signalled.
FenceUnsignalledOnlyWhilePending ==
    /\ \A slot \in Slots :
          /\ ~inFlightFences[slot] => Cardinality(PendingDraws(slot)) = 1
          /\ inFlightFences[slot] => PendingDraws(slot) = {}
    /\ acquireResult = "VK_ERROR_OUT_OF_DATE_KHR" => inFlightFences[currentFrame]

\* C32: with every submission completing, every fence wait of drawFrame
\* returns, over normal frames, skipped frames and recreations: the fence
\* of a slot is unsignalled only from its reset to the completion of the
\* submission of the same call, and a frame skipped at acquire leaves no
\* fence unsignalled.
C32_FenceWaitReturns ==
    /\ []FenceUnsignalledOnlyWhilePending
    /\ (pc = "waitFence") ~> (pc = "acquire")

\* A call waits on the fence of the slot whose previous call was skipped at
\* acquire, which is signalled, while the submission of the call in between
\* is unfinished.
C32_WaitAfterSkippedFrame ==
    /\ pc = "waitFence"
    /\ frameNo = 3
    /\ fenceWaits[currentFrame] = <<"VK_ERROR_OUT_OF_DATE_KHR">>
    /\ inFlightFences[currentFrame]
    /\ \E slot \in Slots : ~inFlightFences[slot]
====
